---- MODULE Spec2Model ----
(***************************************************************************)
(* Portus: a reverse proxy in front of the Portkey gateway.                *)
(*                                                                         *)
(* The module models the request path of the proxy:                        *)
(*   - AuthMiddleware          (internal/middleware/middleware.go)         *)
(*   - RequestIDMiddleware, RecoverMiddleware, chain (cmd/portus/main.go)  *)
(*   - the handlers and handleProxyRequest (internal/handlers)             *)
(*   - copyHeaders, setPortkeyHeaders, getTimeout (internal/handlers)      *)
(*                                                                         *)
(* Header values and names are TLA+ strings; a character is a string of    *)
(* length one, taken with SubSeq.                                          *)
(***************************************************************************)
EXTENDS Integers, Sequences, FiniteSets, TLC

VARIABLES
    store,      \* the configuration snapshot: ProxyKeys, Models, GatewayURL
    authReq,    \* AuthMiddleware alone: the request's credential headers
    authResp,   \* AuthMiddleware alone: what the middleware did with authReq
    authLog,    \* AuthMiddleware alone: the failure responses produced so far
    pc,         \* request pipeline: where the serving goroutine is
    req,        \* request pipeline: the inbound request
    ctx,        \* request pipeline: the request context (values, cancellation)
    w,          \* request pipeline: the response as the caller receives it
    up,         \* request pipeline: the upstream call
    hist,       \* request pipeline: steps and phases gone through, this request
    logs,       \* request pipeline: the records logged for this request by
                \* handleProxyRequest, LoggingMiddleware and RecoverMiddleware
    conc,       \* concurrent requests: for each serving goroutine, where it is
                \* and the objects it has made (bodyMap, config, header)
    hdr,        \* header forwarding alone: inbound fields, r.Header, proxyReq.Header
    msgs,       \* /v1/messages body alone: inbound body, decoded request, upstream body
    conf        \* configuration validation alone: the alias config and the verdict

authVars == <<authReq, authResp, authLog>>
pipeVars == <<pc, req, ctx, w, up, hist, logs>>
vars ==
    <<store, authReq, authResp, authLog, pc, req, ctx, w, up, hist, logs, hdr, msgs, conf,
      conc>>

(***************************************************************************)
(* Strings                                                                 *)
(***************************************************************************)
UpperLetters == "ABCDEFGHIJKLMNOPQRSTUVWXYZ"
LowerLetters == "abcdefghijklmnopqrstuvwxyz"

CharAt(s, i) == SubSeq(s, i, i)

\* unicode.ToLower on one ASCII character
ToLowerCh(c) ==
    IF \E i \in 1..Len(UpperLetters) : CharAt(UpperLetters, i) = c
    THEN CharAt(LowerLetters, CHOOSE i \in 1..Len(UpperLetters) : CharAt(UpperLetters, i) = c)
    ELSE c

\* unicode.ToUpper on one ASCII character
ToUpperCh(c) ==
    IF \E i \in 1..Len(LowerLetters) : CharAt(LowerLetters, i) = c
    THEN CharAt(UpperLetters, CHOOSE i \in 1..Len(LowerLetters) : CharAt(LowerLetters, i) = c)
    ELSE c

RECURSIVE ToLowerFrom(_, _)
\* the characters of s from position i on, each mapped by unicode.ToLower
ToLowerFrom(s, i) ==
    IF i > Len(s) THEN ""
    ELSE ToLowerCh(CharAt(s, i)) \o ToLowerFrom(s, i + 1)

\* strings.ToLower
ToLower(s) == ToLowerFrom(s, 1)

\* strings.HasPrefix
HasPrefix(s, prefix) ==
    /\ Len(s) >= Len(prefix)
    /\ SubSeq(s, 1, Len(prefix)) = prefix

RECURSIVE JoinFrom(_, _, _)
\* the elements of a sequence of strings from position i on, sep between them
JoinFrom(strs, i, sep) ==
    IF i > Len(strs) THEN ""
    ELSE (IF i > 1 THEN sep ELSE "") \o strs[i] \o JoinFrom(strs, i + 1, sep)

RECURSIVE Itoa(_)
\* the decimal text of a natural number
Itoa(n) ==
    LET Digits == <<"0", "1", "2", "3", "4", "5", "6", "7", "8", "9">>
    IN IF n < 10 THEN Digits[n + 1] ELSE Itoa(n \div 10) \o Digits[(n % 10) + 1]

(***************************************************************************)
(* AuthMiddleware                                                          *)
(***************************************************************************)
StatusUnauthorized == 401

MissingAuthBody == "{\"error\": \"Missing Authorization header\"}"
InvalidAuthBody == "{\"error\": \"Invalid Authorization key\"}"

BearerPrefix == "bearer "

RECURSIVE keyMapOf(_, _)
\* keyMap[pk.Key] = pk.Application for each pk in order: a later entry
\* overwrites an earlier one with the same key.  NoApp when the key is absent.
NoApp == "<none>"
keyMapOf(keys, k) ==
    IF Len(keys) = 0 THEN NoApp
    ELSE IF keys[Len(keys)].Key = k THEN keys[Len(keys)].Application
    ELSE keyMapOf(SubSeq(keys, 1, Len(keys) - 1), k)

KeySet(keys) == { keys[i].Key : i \in 1..Len(keys) }

\* BearerToken with the scheme compared case-sensitively
BearerToken_CaseSensitive(authHeader) ==
    IF HasPrefix(authHeader, "Bearer ")
    THEN SubSeq(authHeader, Len(BearerPrefix) + 1, Len(authHeader))
    ELSE authHeader

\* The token the middleware reads from an Authorization header value
BearerToken(authHeader) ==
    IF HasPrefix(ToLower(authHeader), BearerPrefix)
    THEN SubSeq(authHeader, Len(BearerPrefix) + 1, Len(authHeader))
    ELSE authHeader

\* token and authSource as set by the header checks
ExtractToken(authHeader, apiKey) ==
    IF authHeader # ""
    THEN [token |-> BearerToken(authHeader), source |-> "Authorization"]
    ELSE IF apiKey # ""
         THEN [token |-> apiKey, source |-> "x-api-key"]
         ELSE [token |-> "", source |-> ""]



\* AuthMiddleware answering an unknown key with 403 instead of 401
AuthMiddleware_ForbiddenOnInvalid(keys, authHeader, apiKey) ==
    LET ex == ExtractToken(authHeader, apiKey) IN
    IF ex.token = ""
    THEN [next |-> FALSE, status |-> StatusUnauthorized, body |-> MissingAuthBody,
          application |-> NoApp]
    ELSE IF ex.token \notin KeySet(keys)
    THEN [next |-> FALSE, status |-> 403, body |-> InvalidAuthBody,
          application |-> NoApp]
    ELSE [next |-> TRUE, status |-> 0, body |-> "",
          application |-> keyMapOf(keys, ex.token)]

\* AuthMiddleware without the return after the missing-credential answer:
\* the next handler runs all the same
AuthMiddleware_NextOnMissing(keys, authHeader, apiKey) ==
    LET ex == ExtractToken(authHeader, apiKey) IN
    IF ex.token = ""
    THEN [next |-> TRUE, status |-> StatusUnauthorized, body |-> MissingAuthBody,
          application |-> NoApp]
    ELSE IF ex.token \notin KeySet(keys)
    THEN [next |-> FALSE, status |-> StatusUnauthorized, body |-> InvalidAuthBody,
          application |-> NoApp]
    ELSE [next |-> TRUE, status |-> 0, body |-> "",
          application |-> keyMapOf(keys, ex.token)]

\* The handler AuthMiddleware returns, applied to one request.
\* next: whether next.ServeHTTP is called; status 0: nothing written here.
AuthMiddleware(keys, authHeader, apiKey) ==
    LET ex == ExtractToken(authHeader, apiKey) IN
    IF ex.token = ""
    THEN [next |-> FALSE, status |-> StatusUnauthorized, body |-> MissingAuthBody,
          application |-> NoApp]
    ELSE IF ex.token \notin KeySet(keys)
    THEN [next |-> FALSE, status |-> StatusUnauthorized, body |-> InvalidAuthBody,
          application |-> NoApp]
    ELSE [next |-> TRUE, status |-> 0, body |-> "",
          application |-> keyMapOf(keys, ex.token)]

(***************************************************************************)
(* The response writer, the request context and the upstream call          *)
(***************************************************************************)
\* header: w.Header() as name-value pairs (X-Request-ID apart, in requestID);
\* sentHeader: the header that went out with the status line; body: what was
\* written; flushed: how much of body has been flushed to the caller
NewWriter == [status |-> 0, statusLines |-> 0, requestID |-> "", header |-> {},
              sentHeader |-> {}, body |-> <<>>, flushed |-> 0]

\* w.Header().Set(name, value)
SetHeader(rw, name, value) ==
    [rw EXCEPT !.header = { p \in @ : p[1] # name } \cup {<<name, value>>}]

\* w.Header().Add(key, value) for every value of every key of a header
AddHeaders(rw, pairs) == [rw EXCEPT !.header = @ \cup pairs]

\* ResponseWriter.WriteHeader: the first call sends the status line; net/http
\* discards a later ("superfluous") call.
WriteHeader(rw, code) ==
    IF rw.statusLines > 0 THEN rw
    ELSE [rw EXCEPT !.status = code, !.statusLines = 1, !.sentHeader = rw.header]

\* ResponseWriter.Write after the status line
Write(rw, data) == [rw EXCEPT !.body = Append(@, data)]

\* flusher.Flush()
Flush(rw) == [rw EXCEPT !.flushed = Len(rw.body)]

\* a chunk written and left in the buffer
forwardChunk_NoFlush(rw, chunk) == Write(rw, chunk)

\* w.Write(buf[:n]) and flusher.Flush() of the streaming loop
forwardChunk(rw, chunk) == Flush(Write(rw, chunk))

\* http.Error(w, msg, code): the content type, the status, then
\* fmt.Fprintln(w, msg)
httpError(rw, msg, code) ==
    Write(WriteHeader(SetHeader(rw, "Content-Type", "text/plain; charset=utf-8"), code),
          msg \o "\n")

\* json.NewEncoder(w).Encode(map[string]string{"error": msg})
JSONError(msg) == "{\"error\":\"" \o msg \o "\"}\n"

\* writeJSONError without the status line
writeJSONError_NoStatus(rw, msg, code) ==
    Write(SetHeader(rw, "Content-Type", "application/json"), JSONError(msg))

writeJSONError(rw, msg, code) ==
    Write(WriteHeader(SetHeader(rw, "Content-Type", "application/json"), code),
          JSONError(msg))

NoBody == [size |-> 0, readErr |-> FALSE, valid |-> FALSE, model |-> ""]
NoReq == [endpoint |-> "", method |-> "", authHeader |-> "", apiKey |-> "",
          body |-> NoBody]
\* proxyReq: its method, the path of its URL, the bytes of its body (those of
\* the caller's body, and whether MessagesHandler's two passes went over them)
NoProxyReq == [method |-> "", path |-> "", body |-> NoBody, defaulted |-> FALSE]
NoCtx == [application |-> "", requestID |-> "", cancelled |-> FALSE]
NoUp == [attempts |-> 0, open |-> FALSE, hasCtx |-> FALSE, timeoutSec |-> 0,
         expired |-> FALSE, failed |-> FALSE, responded |-> FALSE, status |-> 0,
         headers |-> {}, body |-> <<>>, sent |-> 0, ended |-> "no", read |-> 0,
         alias |-> "", request |-> NoProxyReq]
NoHist == [steps |-> {}, phases |-> <<>>, panicked |-> FALSE]

\* http.Header{}: no key
EmptyHeader == [k \in {} |-> <<>>]
\* a nil *StrategyConfig and a nil *RetryConfig (set: the pointer is not nil)
NoStrategy == [set |-> FALSE, Mode |-> ""]
NoRetry == [set |-> FALSE, Attempts |-> 0]
\* the zero models.ModelConfig; OverrideParams holds the map's key-value pairs,
\* each value as its JSON text
NoModel == [Provider |-> "", APIKey |-> "", Strategy |-> NoStrategy, Targets |-> <<>>,
            OverrideParams |-> {}, Retry |-> NoRetry, RequestTimeout |-> 0,
            BetaHeaders |-> <<>>,
            AWSAccessKeyID |-> "", AWSSecretAccessKey |-> "", AWSRegion |-> "",
            AWSSessionToken |-> "",
            VertexProjectID |-> "", VertexRegion |-> "", VertexServiceAccountJSON |-> ""]
\* the zero models.PortkeyConfig
NoPortkeyConfig ==
    [Provider |-> "", APIKey |-> "", Strategy |-> NoStrategy, Targets |-> <<>>,
     OverrideParams |-> {}, Retry |-> NoRetry, RequestTimeout |-> 0,
     AWSAccessKeyID |-> "", AWSSecretAccessKey |-> "", AWSRegion |-> "",
     AWSSessionToken |-> "",
     VertexProjectID |-> "", VertexRegion |-> "", VertexServiceAccountJSON |-> ""]
\* the zero models.TargetConfig
NoTarget == [Provider |-> "", APIKey |-> "", AWSAccessKeyID |-> "",
             AWSSecretAccessKey |-> "", AWSRegion |-> ""]
NoHdr == [step |-> "idle", wire |-> <<>>, model |-> NoModel, src |-> EmptyHeader,
          todo |-> {}, dst |-> EmptyHeader]

\* the goroutines serving requests at the same time
MaxRequests == 2

PipeIdle ==
    /\ conc = [r \in 1..MaxRequests |->
                 [pc |-> "idle", application |-> "", alias |-> "", bodyMap |-> EmptyHeader,
                  config |-> NoPortkeyConfig, header |-> EmptyHeader]]
    /\ pc = "idle"
    /\ req = NoReq
    /\ ctx = NoCtx
    /\ w = NewWriter
    /\ up = NoUp
    /\ hist = NoHist
    /\ logs = <<>>

\* a JSON value: a number (n its integer part, f whether it has a fraction),
\* a string, an object (named by s), null, or no value at all
JNum(n) == [t |-> "num", n |-> n, f |-> FALSE, s |-> ""]
JFrac(n) == [t |-> "num", n |-> n, f |-> TRUE, s |-> ""]
\* the integer 2^53 + k written in a body
JBig(k) == [t |-> "big", n |-> k, f |-> FALSE, s |-> ""]
JStr(str) == [t |-> "str", n |-> 0, f |-> FALSE, s |-> str]
JObj(name) == [t |-> "obj", n |-> 0, f |-> FALSE, s |-> name]
JNull == [t |-> "null", n |-> 0, f |-> FALSE, s |-> ""]
JAbsent == [t |-> "absent", n |-> 0, f |-> FALSE, s |-> ""]

\* var req models.MessagesRequest
NoMessagesRequest == [Model |-> "", MaxTokens |-> 0, Thinking |-> FALSE, err |-> FALSE]
NoMsg == [step |-> "idle", body |-> <<>>, override |-> JAbsent, thinking |-> FALSE,
          req |-> NoMessagesRequest, out |-> <<>>, status |-> 0]

\* var config models.ModelConfig, of which validation reads these fields
NoCfg == [step |-> "idle", model |-> NoModel, verdict |-> "", out |-> NoPortkeyConfig]

(***************************************************************************)
(* Inputs of the authentication specification                              *)
(***************************************************************************)
MaxKeys == 2

KeyValues == {"", "k1", "bearer k1"}
Applications == {"app1", "app2"}
ProxyKey == [Key : KeyValues, Application : Applications]

\* loadProxyKeys appends one ProxyKey per PORTUS_KEY_* variable, whatever its
\* value; ValidateConfig requires at least one.
ProxyKeyLists == UNION { [1..n -> ProxyKey] : n \in 1..MaxKeys }

AuthHeaderValues ==
    {"", "k1", "zz", "Bearer k1", "BEARER k1", "Bearer zz", "Bearer ",
     "bearer k1", "Bearer bearer k1"}
ApiKeyValues == {"", "k1", "zz", "bearer k1"}

NoResp == [next |-> FALSE, status |-> 0, body |-> "", application |-> NoApp]
NoAuthReq == [authHeader |-> "", apiKey |-> "", pending |-> FALSE]

AuthIdle ==
    /\ authReq = NoAuthReq
    /\ authResp = NoResp
    /\ authLog = {}

InitAuth ==
    /\ store \in [ProxyKeys : ProxyKeyLists, Models : {<<>>}, GatewayURLValid : {TRUE}, GatewayPath : {""}]
    /\ AuthIdle
    /\ PipeIdle
    /\ hdr = NoHdr
    /\ msgs = NoMsg
    /\ conf = NoCfg

\* a request reaches the middleware
AuthArrive ==
    /\ ~authReq.pending
    /\ \E h \in AuthHeaderValues, k \in ApiKeyValues :
          authReq' = [authHeader |-> h, apiKey |-> k, pending |-> TRUE]
    /\ authResp' = NoResp
    /\ UNCHANGED <<store, conc, hdr, msgs, conf, authLog, pipeVars>>

\* why a failed request failed, as the caller knows it
FailureCause(r) ==
    IF r.authHeader = "" /\ r.apiKey = "" THEN "absent" ELSE "wrong"

\* the middleware serves it
AuthServe ==
    /\ authReq.pending
    /\ LET out == AuthMiddleware(store.ProxyKeys, authReq.authHeader, authReq.apiKey) IN
          /\ authResp' = out
          /\ authLog' = IF out.next THEN authLog
                        ELSE authLog \cup {[cause |-> FailureCause(authReq),
                                            status |-> out.status,
                                            body |-> out.body]}
    /\ authReq' = [authReq EXCEPT !.pending = FALSE]
    /\ UNCHANGED <<store, conc, hdr, msgs, conf, pipeVars>>

NextAuth == AuthArrive \/ AuthServe

SpecAuth == InitAuth /\ [][NextAuth]_vars

(***************************************************************************)
(* Authentication claims (under SpecAuth)                                  *)
(***************************************************************************)
AuthServed == authResp.next \/ authResp.status # 0

\* the application of the last snapshot entry whose key is c
LastApp(keys, c) ==
    keys[CHOOSE i \in 1..Len(keys) :
            /\ keys[i].Key = c
            /\ \A j \in (i+1)..Len(keys) : keys[j].Key # c].Application

HasBearerScheme(h) == HasPrefix(ToLower(h), "bearer ")
AfterScheme(h) == SubSeq(h, 8, Len(h))

\* the request presents credential c: as the whole Authorization value (a
\* credential that does not itself start with the scheme), after the scheme,
\* or in x-api-key with no Authorization header
PresentsCredential(r, c) ==
    \/ r.authHeader = c /\ ~HasBearerScheme(c)
    \/ HasBearerScheme(r.authHeader) /\ AfterScheme(r.authHeader) = c
    \/ r.authHeader = "" /\ r.apiKey = c

\* C2 (as amended): every non-empty credential of the snapshot, presented as
\* the Authorization value (when it does not itself begin with the bearer
\* scheme), after a case-insensitive "Bearer " scheme, or in x-api-key with no
\* Authorization header, is authenticated with the application of the last
\* snapshot entry for that key; a request presenting no such credential is
\* answered 401 and the next handler is not called.
C2_MappedIdentity ==
    AuthServed =>
        LET creds == KeySet(store.ProxyKeys) \ {""} IN
        /\ \A c \in creds :
              PresentsCredential(authReq, c) =>
                  /\ authResp.next
                  /\ authResp.status = 0
                  /\ authResp.application = LastApp(store.ProxyKeys, c)
        /\ (~ \E c \in creds : PresentsCredential(authReq, c)) =>
              /\ ~authResp.next
              /\ authResp.status = 401

\* C2 witness: a credential sent after an upper-case scheme is authenticated
\* against a snapshot that lists its key twice with different applications
C2_Witness ==
    /\ authResp.next
    /\ authReq.authHeader = "BEARER k1"
    /\ Len(store.ProxyKeys) = 2
    /\ store.ProxyKeys[1].Key = "k1" /\ store.ProxyKeys[2].Key = "k1"
    /\ store.ProxyKeys[1].Application # store.ProxyKeys[2].Application

\* C2 (as stated): every credential of the snapshot, sent as the Authorization
\* value, after "Bearer ", or in x-api-key, is authenticated with its
\* application.
C2_Original ==
    AuthServed =>
        \A c \in KeySet(store.ProxyKeys) :
            (\/ authReq.authHeader = c
             \/ authReq.authHeader = "Bearer " \o c
             \/ authReq.authHeader = "" /\ authReq.apiKey = c) =>
                /\ authResp.next
                /\ authResp.application = LastApp(store.ProxyKeys, c)

\* the Authorization header supplies no credential
NoCredentialInAuthorization(h) == h = "" \/ ToLower(h) = "bearer "

\* C3 (as amended): every authentication failure has status 401 and does not
\* call the next handler, whether the credential was absent or wrong; the body
\* is the fixed text "Missing Authorization header" when no credential could
\* be extracted and the fixed text "Invalid Authorization key" otherwise.
C3_SameStatusFixedBodies ==
    /\ \A e \in authLog : e.status = 401
    /\ \A e \in authLog : e.cause = "absent" => e.body = MissingAuthBody
    /\ (AuthServed /\ ~authResp.next) =>
          /\ authResp.status = 401
          /\ authResp.body =
                IF /\ NoCredentialInAuthorization(authReq.authHeader)
                   /\ (authReq.authHeader # "" \/ authReq.apiKey = "")
                THEN MissingAuthBody ELSE InvalidAuthBody

\* C3 witness: both kinds of failure have been answered
C3_Witness ==
    /\ \E e \in authLog : e.cause = "absent"
    /\ \E e \in authLog : e.cause = "wrong" /\ e.body = InvalidAuthBody

\* C3 (as stated): the failure response for an absent credential and the one
\* for a wrong credential have the same status and the same body.
C3_Original ==
    \A a, b \in authLog : a.status = b.status /\ a.body = b.body

\* C4 (as stated): a request is rejected as missing a credential only when
\* neither header supplies one, and a valid x-api-key is authenticated whenever
\* the Authorization header yields no credential.
C4_Claim ==
    AuthServed =>
        /\ authResp.body = MissingAuthBody =>
              /\ NoCredentialInAuthorization(authReq.authHeader)
              /\ authReq.apiKey = ""
        /\ (/\ NoCredentialInAuthorization(authReq.authHeader)
            /\ authReq.apiKey # ""
            /\ authReq.apiKey \in KeySet(store.ProxyKeys)) => authResp.next

(***************************************************************************)
(* The request pipeline: main's handler chain and the handlers             *)
(***************************************************************************)
RECURSIVE chainFrom(_, _, _)
\* the loop of chain: for i := len(middleware)-1; i >= 0; i-- { h = middleware[i](h) }
\* A handler is the sequence of the stages it runs, outermost first.
chainFrom(h, middleware, i) ==
    IF i = 0 THEN h ELSE chainFrom(<<middleware[i]>> \o h, middleware, i - 1)

chain(h, middleware) == chainFrom(h, middleware, Len(middleware))

\* chain(handlers.XHandler(...), authMiddleware, requestIDMiddleware)
ProtectedHandler == chain(<<"handler">>, <<"auth", "requestID">>)

\* the stage a middleware's next.ServeHTTP enters
NextStage(stage) ==
    ProtectedHandler[1 + CHOOSE i \in 1..Len(ProtectedHandler) : ProtectedHandler[i] = stage]

maxBodySize == 10 * 1024 * 1024

\* a limit that also refuses a body of exactly maxBodySize bytes
tooLarge_Inclusive(size) == size >= maxBodySize

\* http.MaxBytesReader(w, r.Body, maxBodySize): reading a body of more than
\* maxBodySize bytes ends in a *http.MaxBytesError
tooLarge(size) == size > maxBodySize

DefaultTimeoutSec == 60

\* getTimeout: seconds
getTimeout(model) ==
    IF model.RequestTimeout > 0
    THEN model.RequestTimeout \div 1000
    ELSE DefaultTimeoutSec

\* the deadline context handleProxyRequest derives from r.Context() with the
\* timeout: done when the inbound request is cancelled, when the deadline has
\* passed, or at once when the timeout is not positive
ctxDone_Background ==
    up.hasCtx /\ (up.expired \/ up.timeoutSec <= 0)

ctxDone ==
    up.hasCtx /\ (ctx.cancelled \/ up.expired \/ up.timeoutSec <= 0)

(***************************************************************************)
(* Inputs of the pipeline specification                                    *)
(***************************************************************************)
MaxChunks == 2

Endpoints == {"/v1/models", "/v1/chat/completions", "/v1/messages"}
Methods == {"GET", "POST"}
PipeAuthHeaders == {"", "Bearer k1", "Bearer zz"}
PipeApiKeys == {"", "k1"}
PipeProxyKeys == <<[Key |-> "k1", Application |-> "app1"]>>
RequestIDs == {"20060102150405-abcdefgh"}
Aliases == {"a1", "a2"}
TimeoutValues == {0, 500, 1500, 30000}
ModelConfigs ==
    [Provider : {"openai"}, RequestTimeout : TimeoutValues, Targets : {<<>>},
     OverrideParams : {{<<"model", "\"gpt-4o\"">>}}]

getProviderFromConfig(model) ==
    IF model.Provider # "" THEN model.Provider
    ELSE IF Len(model.Targets) > 0 THEN model.Targets[1].Provider
    ELSE "unknown"

\* OverrideParams["model"].(string) of the alias, else of its first target: the
\* assertion holds of a value that is a JSON string
getModelFromConfig(model) ==
    LET names == {"gpt-4o", "claude-sonnet-4"}
        named(params) == { n \in names : <<"model", "\"" \o n \o "\"">> \in params }
    IN IF named(model.OverrideParams) # {}
       THEN CHOOSE n \in named(model.OverrideParams) : TRUE
       ELSE IF Len(model.Targets) > 0 /\ named(model.Targets[1].OverrideParams) # {}
       THEN CHOOSE n \in named(model.Targets[1].OverrideParams) : TRUE
       ELSE "unknown"
\* store.GatewayURL: whether http.NewRequest can parse it, and the path it
\* ends in: "::", "http://localhost:8787", "http://localhost:8787/gw"
GatewayURLs == {<<FALSE, "">>, <<TRUE, "">>, <<TRUE, "/gw">>}
\* the configurations a started server can hold: ValidateConfig refuses an
\* empty set of models
ModelSnapshots ==
    [{"a1"} -> ModelConfigs]
       \cup { m \in [Aliases -> ModelConfigs] : m["a2"].RequestTimeout = 0 }
\* size: the bytes the caller sends; readErr: reading them fails before the
\* limit is reached; valid: they decode into the request; model: its model
Bodies ==
    {[size |-> 10485761, readErr |-> FALSE, valid |-> TRUE, model |-> "a1"],
     [size |-> 10485761, readErr |-> TRUE, valid |-> TRUE, model |-> "a1"],
     [size |-> 10485760, readErr |-> TRUE, valid |-> TRUE, model |-> "a1"],
     [size |-> 10485760, readErr |-> FALSE, valid |-> FALSE, model |-> ""],
     [size |-> 10485760, readErr |-> FALSE, valid |-> TRUE, model |-> ""],
     [size |-> 10485760, readErr |-> FALSE, valid |-> TRUE, model |-> "nonexistent"],
     [size |-> 10485760, readErr |-> FALSE, valid |-> TRUE, model |-> "a1"],
     [size |-> 120, readErr |-> FALSE, valid |-> TRUE, model |-> "a1"]}
UpstreamStatuses == {200, 500}
UpstreamHeaders ==
    {{<<"Content-Type", "text/event-stream">>},
     {<<"Content-Type", "application/json">>, <<"X-Request-Id", "gw-1">>}}
AllChunks == <<"c1", "c2", "c3", "c4">>
UpstreamBodies == { SubSeq(AllChunks, 1, n) : n \in 0..MaxChunks }

Phases == <<"Received", "Authenticating", "Translating", "Proxying", "StreamingResponse">>
PhaseRank(ph) == CHOOSE i \in 1..Len(Phases) : Phases[i] = ph

\* history: the step taken, and the phase it belongs to
Did(h, step, phase) ==
    [h EXCEPT !.steps = @ \cup {step},
              !.phases = IF @[Len(@)] = phase THEN @ ELSE Append(@, phase)]

InitPipe ==
    /\ store \in { [ProxyKeys |-> PipeProxyKeys, Models |-> m,
                     GatewayURLValid |-> g[1], GatewayPath |-> g[2]] :
                       m \in ModelSnapshots, g \in GatewayURLs }
    /\ AuthIdle
    /\ PipeIdle
    /\ hdr = NoHdr
    /\ msgs = NoMsg
    /\ conf = NoCfg

(***************************************************************************)
(* Pipeline actions                                                        *)
(***************************************************************************)
\* the server hands a request to RecoverMiddleware(LoggingMiddleware(mux))
Receive ==
    /\ pc = "idle"
    /\ \E e \in Endpoints, m \in Methods, h \in PipeAuthHeaders, k \in PipeApiKeys :
          req' = [endpoint |-> e, method |-> m, authHeader |-> h, apiKey |-> k,
                  body |-> NoBody]
    /\ pc' = ProtectedHandler[1]
    /\ ctx' = NoCtx
    /\ w' = NewWriter
    /\ up' = NoUp
    /\ hist' = [NoHist EXCEPT !.phases = <<"Received">>]
    /\ logs' = <<>>
    /\ UNCHANGED <<store, conc, hdr, msgs, conf, authVars>>

\* AuthMiddleware's handler
AuthStep ==
    /\ pc = "auth"
    /\ LET out == AuthMiddleware(store.ProxyKeys, req.authHeader, req.apiKey) IN
          IF out.next
          THEN /\ ctx' = [ctx EXCEPT !.application = out.application]
               /\ w' = w
               /\ pc' = NextStage("auth")
          ELSE /\ ctx' = ctx
               /\ w' = httpError(w, out.body, out.status)
               /\ pc' = "done"
    /\ hist' = Did(hist, "auth", "Authenticating")
    /\ UNCHANGED <<store, conc, hdr, msgs, conf, authVars, logs, req, up>>

\* RequestIDMiddleware's handler
RequestIDStep ==
    /\ pc = "requestID"
    /\ \E id \in RequestIDs :
          /\ ctx' = [ctx EXCEPT !.requestID = id]
          /\ w' = [w EXCEPT !.requestID = id]
    /\ pc' = NextStage("requestID")
    /\ hist' = [hist EXCEPT !.steps = @ \cup {"requestID"}]
    /\ UNCHANGED <<store, conc, hdr, msgs, conf, authVars, logs, req, up>>

\* the orders in which a range over a map with these keys can visit them
rangeOrders(keys) ==
    { o \in [1..Cardinality(keys) -> keys] : \A i, j \in DOMAIN o : o[i] = o[j] => i = j }

\* a list that loses the alias visited first
modelsData_SkipFirst(order) == [i \in 1..(Len(order) - 1) |-> order[i + 1]]

\* ModelsHandler's data: one ModelObject, named by its ID, per alias visited
modelsData(order) == [i \in 1..Len(order) |-> order[i]]

\* json.NewEncoder(w).Encode(response) of the ModelsListResponse with these IDs
ModelsListJSON(ids) ==
    LET obj(id) == "{\"id\":\"" \o id
                      \o "\",\"object\":\"model\",\"created\":1700000000,\"owned_by\":\"portus\"}"
    IN "{\"object\":\"list\",\"data\":["
          \o JoinFrom([i \in 1..Len(ids) |-> obj(ids[i])], 1, ",") \o "]}\n"

\* the method check at the head of ModelsHandler, ChatCompletionsHandler and
\* MessagesHandler; ModelsHandler answers at once
MethodCheck ==
    /\ pc = "handler"
    /\ IF req.endpoint = "/v1/models"
       THEN /\ IF req.method # "GET"
               THEN w' = writeJSONError(w, "Method not allowed", 405)
               ELSE \E order \in rangeOrders(DOMAIN store.Models) :
                       w' = Write(WriteHeader(SetHeader(w, "Content-Type", "application/json"),
                                              200),
                                  ModelsListJSON(modelsData(order)))
            /\ pc' = "done"
       ELSE IF req.method # "POST"
            THEN /\ w' = writeJSONError(w, "Method not allowed", 405)
                 /\ pc' = "done"
            ELSE /\ w' = w
                 /\ pc' = "read"
    /\ hist' = Did(hist, "method", "Translating")
    /\ UNCHANGED <<store, conc, hdr, msgs, conf, authVars, logs, req, ctx, up>>

\* io.ReadAll(http.MaxBytesReader(w, r.Body, maxBodySize))
ReadBody ==
    /\ pc = "read"
    /\ \E b \in Bodies :
          /\ req' = [req EXCEPT !.body = b]
          /\ IF ~b.readErr /\ tooLarge(b.size)
             THEN /\ w' = writeJSONError(w, "Request body too large", 413)
                  /\ pc' = "done"
             ELSE IF b.readErr
             THEN /\ w' = writeJSONError(w, "Failed to read request body", 400)
                  /\ pc' = "done"
             ELSE /\ w' = w
                  /\ pc' = "parse"
    /\ hist' = Did(hist, "read", "Translating")
    /\ UNCHANGED <<store, conc, hdr, msgs, conf, authVars, logs, ctx, up>>

\* json.Unmarshal(body, &req) and the check of req.Model
ParseBody ==
    /\ pc = "parse"
    /\ IF ~req.body.valid
       THEN /\ w' = writeJSONError(w, "Invalid request body", 400)
            /\ pc' = "done"
       ELSE IF req.body.model = ""
       THEN /\ w' = writeJSONError(w, "Missing 'model' field in request", 400)
            /\ pc' = "done"
       ELSE /\ w' = w
            /\ pc' = "lookup"
    /\ hist' = Did(hist, "parse", "Translating")
    /\ UNCHANGED <<store, conc, hdr, msgs, conf, authVars, logs, req, ctx, up>>

\* an unknown alias answered as a resource that was not found
Lookup_NotFound ==
    /\ pc = "lookup"
    /\ IF req.body.model \notin DOMAIN store.Models
       THEN /\ w' = writeJSONError(w, "Unknown model alias", 404)
            /\ pc' = "done"
            /\ up' = up
       ELSE /\ w' = w
            /\ pc' = "build"
            /\ up' = [up EXCEPT !.alias = req.body.model]
    /\ hist' = Did(hist, "lookup", "Translating")
    /\ UNCHANGED <<store, conc, hdr, msgs, conf, authVars, logs, req, ctx>>

\* modelConfig, exists := store.Models[req.Model]
Lookup ==
    /\ pc = "lookup"
    /\ IF req.body.model \notin DOMAIN store.Models
       THEN /\ w' = writeJSONError(w, "Unknown model alias", 400)
            /\ pc' = "done"
            /\ up' = up
       ELSE /\ w' = w
            /\ pc' = "build"
            /\ up' = [up EXCEPT !.alias = req.body.model]
    /\ hist' = Did(hist, "lookup", "Translating")
    /\ UNCHANGED <<store, conc, hdr, msgs, conf, authVars, logs, req, ctx>>

\* an upstream request addressed to the inbound path alone
NewRequest_NoGatewayPath(method, gatewayPath, targetPath, body, defaulted) ==
    [method |-> method, path |-> targetPath, body |-> body, defaulted |-> defaulted]

\* http.NewRequestWithContext(ctx, r.Method, store.GatewayURL+targetPath,
\* bytes.NewReader(body))
NewRequest(method, gatewayPath, targetPath, body, defaulted) ==
    [method |-> method, path |-> gatewayPath \o targetPath, body |-> body,
     defaulted |-> defaulted]

\* handleProxyRequest up to the upstream call: the timeout, the derived
\* context, the upstream request and its headers; targetPath is the literal
\* each handler passes, the path it is registered under
BuildRequest ==
    /\ pc = "build"
    /\ IF ~store.GatewayURLValid
       THEN /\ w' = writeJSONError(w, "Internal server error", 500)
            /\ pc' = "done"
            /\ up' = up
            /\ logs' = Append(logs, [msg |-> "failed to create proxy request",
                                     attrs |-> {<<"error", "err">>}])
       ELSE /\ w' = w
            /\ pc' = "do"
            /\ logs' = logs
            /\ up' = [up EXCEPT !.hasCtx = TRUE,
                                !.timeoutSec = getTimeout(store.Models[up.alias]),
                                !.request = NewRequest(req.method, store.GatewayPath,
                                                       req.endpoint, req.body,
                                                       req.endpoint = "/v1/messages")]
    /\ hist' = Did(hist, "build", "Translating")
    /\ UNCHANGED <<store, conc, hdr, msgs, conf, authVars, req, ctx>>

\* gatewayClient.Do(proxyReq) is called (attempts counts the calls): a context
\* that is already done fails the call before anything is sent
DoStart ==
    /\ pc = "do"
    /\ IF ctxDone
       THEN /\ w' = writeJSONError(w, "Failed to reach gateway", 502)
            /\ pc' = "done"
            /\ up' = [up EXCEPT !.attempts = @ + 1, !.hasCtx = FALSE]
            /\ hist' = [Did(hist, "do", "Proxying") EXCEPT !.steps = @ \cup {"gatewayError"}]
            /\ logs' = Append(logs, [msg |-> "failed to proxy request to gateway",
                                     attrs |-> {<<"error", "err">>}])
       ELSE /\ w' = w
            /\ pc' = "await"
            /\ up' = [up EXCEPT !.attempts = @ + 1, !.open = TRUE]
            /\ hist' = Did(hist, "do", "Proxying")
            /\ logs' = logs
    /\ UNCHANGED <<store, conc, hdr, msgs, conf, authVars, req, ctx>>

\* the record handleProxyRequest logs once gatewayClient.Do has returned a
\* response: the duration is that of the call
completionRecord ==
    [msg |-> "proxy request completed",
     attrs |-> {<<"request_id", ctx.requestID>>, <<"application", ctx.application>>,
                <<"endpoint", req.endpoint>>, <<"model_alias", up.alias>>,
                <<"provider", getProviderFromConfig(store.Models[up.alias])>>,
                <<"resolved_model", getModelFromConfig(store.Models[up.alias])>>,
                <<"status", Itoa(up.status)>>, <<"duration_ms", "since start">>}]

\* gatewayClient.Do called again after an error, once
DoReturn_Retry ==
    /\ pc = "await"
    /\ \/ /\ up.failed \/ ctxDone
          /\ IF up.attempts < 2
             THEN /\ w' = w
                  /\ pc' = "do"
                  /\ up' = [up EXCEPT !.open = FALSE, !.failed = FALSE]
                  /\ hist' = hist
                  /\ logs' = logs
             ELSE /\ w' = writeJSONError(w, "Failed to reach gateway", 502)
                  /\ pc' = "done"
                  /\ up' = [up EXCEPT !.open = FALSE, !.hasCtx = FALSE]
                  /\ hist' = [hist EXCEPT !.steps = @ \cup {"gatewayError"}]
                  /\ logs' = Append(logs, [msg |-> "failed to proxy request to gateway",
                                           attrs |-> {<<"error", "err">>}])
       \/ /\ up.responded
          /\ w' = WriteHeader(AddHeaders(w, up.headers), up.status)
          /\ pc' = "stream"
          /\ up' = up
          /\ hist' = Did(hist, "respond", "StreamingResponse")
          /\ logs' = Append(logs, completionRecord)
    /\ UNCHANGED <<store, conc, hdr, msgs, conf, authVars, req, ctx>>

\* gatewayClient.Do returns: an error, or the response whose status and
\* headers are then written to the caller
DoReturn ==
    /\ pc = "await"
    /\ \/ /\ up.failed \/ ctxDone
          /\ w' = writeJSONError(w, "Failed to reach gateway", 502)
          /\ pc' = "done"
          /\ up' = [up EXCEPT !.open = FALSE, !.hasCtx = FALSE]
          /\ hist' = [hist EXCEPT !.steps = @ \cup {"gatewayError"}]
          /\ logs' = Append(logs, [msg |-> "failed to proxy request to gateway",
                                   attrs |-> {<<"error", "err">>}])
       \/ /\ up.responded
          /\ w' = WriteHeader(AddHeaders(w, up.headers), up.status)
          /\ pc' = "stream"
          /\ up' = up
          /\ hist' = Did(hist, "respond", "StreamingResponse")
          /\ logs' = Append(logs, completionRecord)
    /\ UNCHANGED <<store, conc, hdr, msgs, conf, authVars, req, ctx>>

\* a failure of the stream reported to the caller
stopForwarding_Report(rw) == writeJSONError(rw, "Stream interrupted", 502)

\* a failed write or read while streaming: logged, and the loop left, with
\* nothing more done to the response
stopForwarding(rw) == rw

\* one turn of the streaming loop: resp.Body.Read, w.Write, Flush; on leaving
\* the loop the handler returns and its deferred Close and cancel run
StreamStep ==
    /\ pc = "stream"
    /\ \/ \* n > 0: a chunk is there; the error is nil, or io.EOF with the last chunk;
          \* w.Write fails when the caller is gone or the write deadline has passed
          /\ up.read < up.sent
          /\ \E eof \in BOOLEAN, wErr \in BOOLEAN :
                /\ eof => (up.ended = "eof" /\ up.read + 1 = Len(up.body))
                /\ IF wErr
                   THEN /\ w' = stopForwarding(w)
                        /\ pc' = "done"
                        /\ up' = [up EXCEPT !.read = @ + 1, !.open = FALSE, !.hasCtx = FALSE]
                        /\ hist' = [hist EXCEPT !.steps = @ \cup {"stream", "writeError"}]
                        /\ logs' = Append(logs,
                                          [msg |-> "client disconnected during stream",
                                           attrs |-> {<<"error", "err">>}])
                   ELSE /\ w' = forwardChunk(w, up.body[up.read + 1])
                        /\ logs' = logs
                        /\ IF eof
                           THEN /\ pc' = "done"
                                /\ up' = [up EXCEPT !.read = @ + 1, !.open = FALSE,
                                                    !.hasCtx = FALSE]
                                /\ hist' = [hist EXCEPT !.steps =
                                                @ \cup {"stream", "eof", "lastWithEOF"}]
                           ELSE /\ pc' = "stream"
                                /\ up' = [up EXCEPT !.read = @ + 1]
                                /\ hist' = [hist EXCEPT !.steps = @ \cup {"stream"}]
       \/ \* n = 0 and io.EOF
          /\ up.read = up.sent /\ up.ended = "eof"
          /\ w' = w
          /\ pc' = "done"
          /\ up' = [up EXCEPT !.open = FALSE, !.hasCtx = FALSE]
          /\ hist' = [hist EXCEPT !.steps = @ \cup {"stream", "eof"}]
          /\ logs' = logs
       \/ \* n = 0 and another read error, or the context's error
          /\ \/ up.read = up.sent /\ up.ended = "err"
             \/ ctxDone
          /\ w' = stopForwarding(w)
          /\ pc' = "done"
          /\ up' = [up EXCEPT !.open = FALSE, !.hasCtx = FALSE]
          /\ hist' = [hist EXCEPT !.steps = @ \cup {"stream", "readError"}]
          /\ \E r \in { [msg |-> "request canceled by client", attrs |-> {}] :
                             c \in { x \in {up.hasCtx /\ ctx.cancelled} : x } }
                         \cup { [msg |-> "error reading stream",
                                 attrs |-> {<<"error", "err">>}] :
                                   c \in { x \in {(up.read = up.sent /\ up.ended = "err")
                                                     \/ ctxDone_Background} : x } } :
                logs' = Append(logs, r)
    /\ UNCHANGED <<store, conc, hdr, msgs, conf, authVars, req, ctx>>

\* a panic below RecoverMiddleware: the stack unwinds (the deferred Close and
\* cancel run) and the deferred recover answers with http.Error
Panic ==
    /\ pc \notin {"idle", "done"}
    /\ w' = httpError(w, "{\"error\": \"Internal server error\"}", 500)
    /\ pc' = "done"
    /\ up' = [up EXCEPT !.open = FALSE, !.hasCtx = FALSE]
    /\ hist' = [hist EXCEPT !.panicked = TRUE]
    /\ logs' = Append(logs, [msg |-> "panic recovered",
                             attrs |-> {<<"error", "err">>, <<"path", req.endpoint>>,
                                        <<"method", req.method>>}])
    /\ UNCHANGED <<store, conc, hdr, msgs, conf, authVars, req, ctx>>

\* the handler chain has returned: LoggingMiddleware logs the request (not
\* after a panic, which unwinds past it), the server ends the response and the
\* request's context and writer are gone; the log stays
Finish ==
    /\ pc = "done"
    /\ pc' = "idle"
    /\ logs' = IF hist.panicked THEN logs
               ELSE Append(logs, [msg |-> "request completed",
                                  attrs |-> {<<"method", req.method>>,
                                             <<"path", req.endpoint>>,
                                             <<"application", ctx.application>>,
                                             <<"status", Itoa(w.status)>>,
                                             <<"duration_ms", "since start">>,
                                             <<"remote_addr", "addr">>}])
    /\ req' = NoReq
    /\ ctx' = NoCtx
    /\ w' = NewWriter
    /\ up' = NoUp
    /\ hist' = NoHist
    /\ UNCHANGED <<store, conc, hdr, msgs, conf, authVars>>

(***************************************************************************)
(* The environment of one request                                          *)
(***************************************************************************)
\* the caller disconnects: net/http cancels r.Context()
Cancel ==
    /\ pc \notin {"idle", "done"}
    /\ ~ctx.cancelled
    /\ ctx' = [ctx EXCEPT !.cancelled = TRUE]
    /\ UNCHANGED <<store, conc, hdr, msgs, conf, authVars, logs, pc, req, w, up, hist>>

\* the deadline of the derived context passes
DeadlineExpire ==
    /\ pc \in {"await", "stream"}
    /\ up.hasCtx /\ ~up.expired
    /\ up' = [up EXCEPT !.expired = TRUE]
    /\ UNCHANGED <<store, conc, hdr, msgs, conf, authVars, logs, pc, req, ctx, w, hist>>

\* the gateway cannot be reached
UpstreamFail ==
    /\ pc = "await"
    /\ ~up.failed /\ ~up.responded
    /\ up' = [up EXCEPT !.failed = TRUE]
    /\ UNCHANGED <<store, conc, hdr, msgs, conf, authVars, logs, pc, req, ctx, w, hist>>

\* the gateway answers with a status and starts sending a body
UpstreamRespond ==
    /\ pc = "await"
    /\ ~up.failed /\ ~up.responded
    /\ \E st \in UpstreamStatuses, hs \in UpstreamHeaders, b \in UpstreamBodies :
          up' = [up EXCEPT !.responded = TRUE, !.status = st, !.headers = hs, !.body = b]
    /\ UNCHANGED <<store, conc, hdr, msgs, conf, authVars, logs, pc, req, ctx, w, hist>>

\* the next chunk of the gateway's body arrives
UpstreamSend ==
    /\ pc = "stream"
    /\ up.ended = "no"
    /\ up.sent < Len(up.body)
    /\ up' = [up EXCEPT !.sent = @ + 1]
    /\ UNCHANGED <<store, conc, hdr, msgs, conf, authVars, logs, pc, req, ctx, w, hist>>

\* the gateway's body ends: cleanly after the last chunk, or with a read error
UpstreamEnd ==
    /\ pc = "stream"
    /\ up.ended = "no"
    /\ \E e \in {"eof", "err"} :
          /\ e = "eof" => up.sent = Len(up.body)
          /\ up' = [up EXCEPT !.ended = e]
    /\ UNCHANGED <<store, conc, hdr, msgs, conf, authVars, logs, pc, req, ctx, w, hist>>

\* the steps of the goroutine serving the request
HandlerStep ==
    \/ AuthStep
    \/ RequestIDStep
    \/ MethodCheck
    \/ ReadBody
    \/ ParseBody
    \/ Lookup
    \/ BuildRequest
    \/ DoStart
    \/ DoReturn
    \/ StreamStep
    \/ Finish

Environment ==
    \/ Receive
    \/ Cancel
    \/ DeadlineExpire
    \/ UpstreamFail
    \/ UpstreamRespond
    \/ UpstreamSend
    \/ UpstreamEnd
    \/ Panic

Next == HandlerStep \/ Environment

Spec == InitPipe /\ [][Next]_vars

\* the serving goroutine runs whenever it can take its step (pc makes at most
\* one of its steps possible at a time); nothing is assumed of the caller, the
\* gateway or the clock
HandlerFairness ==
    /\ WF_vars(AuthStep) /\ WF_vars(RequestIDStep) /\ WF_vars(MethodCheck)
    /\ WF_vars(ReadBody) /\ WF_vars(ParseBody) /\ WF_vars(Lookup)
    /\ WF_vars(BuildRequest) /\ WF_vars(DoStart) /\ WF_vars(DoReturn)
    /\ WF_vars(StreamStep) /\ WF_vars(Finish)

LiveSpec == InitPipe /\ [][Next]_vars /\ HandlerFairness

(***************************************************************************)
(* Pipeline claims (under Spec and LiveSpec)                               *)
(***************************************************************************)
\* C1 (as stated): every response of a protected endpoint carries the
\* X-Request-ID header, the 401 of a failed authentication included.
C1_Claim ==
    (pc = "done" /\ ~hist.panicked) => w.requestID # ""

\* C5: a request with neither an Authorization nor an x-api-key header gets no
\* further than AuthMiddleware: no method check, body read, parse, alias lookup
\* or upstream call happens for it, and its answer is the 401 for a missing
\* credential.
C5_NoCredentialStopsAtAuth ==
    (pc # "idle" /\ req.authHeader = "" /\ req.apiKey = "") =>
        /\ pc \in {"auth", "done"}
        /\ hist.steps \subseteq {"auth"}
        /\ up.attempts = 0
        /\ (pc = "done" /\ ~hist.panicked) =>
              /\ w.status = 401
              /\ w.body = <<MissingAuthBody \o "\n">>

\* C5 witness: a POST to /v1/messages without credentials has been answered 401
C5_Witness ==
    /\ pc = "done"
    /\ req.endpoint = "/v1/messages" /\ req.method = "POST"
    /\ req.authHeader = "" /\ req.apiKey = ""
    /\ hist.steps = {"auth"}
    /\ w.status = 401

\* C6: the phases a request goes through are strictly increasing in the order
\* Received, Authenticating, Translating, Proxying, StreamingResponse; no status
\* reaches the caller before the request ends or streaming starts, and when the
\* request has ended, whatever the outcome, exactly one status line has been
\* sent to the caller.
C6_ForwardOnlyOneStatus ==
    /\ \A i \in 1..(Len(hist.phases) - 1) :
          PhaseRank(hist.phases[i]) < PhaseRank(hist.phases[i + 1])
    /\ pc \notin {"idle", "done", "stream"} => w.statusLines = 0
    /\ pc \in {"done", "stream"} => (w.statusLines = 1 /\ w.status # 0)

\* C6 witness: a request that went through all five phases and ended after
\* streaming two chunks
C6_Witness ==
    /\ pc = "done"
    /\ hist.phases = Phases
    /\ Len(w.body) = 2
    /\ w.status = 200

\* C7 (as stated): the deadline of the upstream call is the alias's
\* request_timeout in milliseconds when that is positive and 60 seconds
\* otherwise, so a positive request_timeout gives a positive deadline.
C7_Claim ==
    up.hasCtx =>
        LET cfg == store.Models[up.alias] IN
        /\ up.timeoutSec * 1000 =
              (IF cfg.RequestTimeout > 0 THEN cfg.RequestTimeout ELSE 60 * 1000)
        /\ cfg.RequestTimeout > 0 => up.timeoutSec > 0

\* C8: no upstream call is open once its request has ended, and whenever the
\* inbound request is cancelled while the upstream call is open, before the
\* gateway answered or while its body is streamed, the call is eventually
\* closed and the handler has returned.
C8_CancelAborts ==
    /\ [](pc = "done" => ~up.open)
    /\ ((ctx.cancelled /\ up.open) ~> (pc = "done" /\ ~up.open))

\* C8 witness: the caller went away after one of two chunks was forwarded, and
\* the handler has returned with the upstream call closed
C8_Witness ==
    /\ pc = "done"
    /\ ctx.cancelled
    /\ ~hist.panicked
    /\ up.attempts = 1 /\ ~up.open
    /\ Len(up.body) = 2 /\ Len(w.body) = 1

\* C13: when the handler called the gateway and got no response back (the
\* transport failed, or the context was done first), the caller is answered
\* 502 "Failed to reach gateway", and the gateway client was called exactly
\* once; no request is ever given a second upstream call
C13_OneAttemptThen502 ==
    /\ up.attempts <= 1
    /\ (pc = "done" /\ ~hist.panicked /\ up.attempts >= 1 /\ "respond" \notin hist.steps)
          => /\ w.status = 502
             /\ w.body = <<JSONError("Failed to reach gateway")>>
             /\ up.attempts = 1
             /\ ~up.open

\* C13 witness: the gateway could not be reached and the handler has answered
C13_Witness ==
    /\ pc = "done"
    /\ up.failed
    /\ ~ctx.cancelled /\ ~up.expired
    /\ w.status = 502
    /\ up.attempts = 1

\* C14: once the handler has the gateway's response, the status line sent to
\* the caller carries the gateway's status and every response header of the
\* gateway, the bytes written are a prefix of the gateway's body in the order
\* read, everything written has been flushed before the next read, and after
\* a clean end of stream the bytes written are the whole body
C14_StreamedFaithfully ==
    ("respond" \in hist.steps /\ ~hist.panicked)
       => /\ w.status = up.status /\ w.statusLines = 1
          /\ up.headers \subseteq w.sentHeader
          /\ Len(w.body) <= up.read
          /\ w.body = SubSeq(up.body, 1, Len(w.body))
          /\ w.flushed = Len(w.body)
          /\ ("eof" \in hist.steps => w.body = up.body)

\* C14 witness: a body of two chunks whose last chunk came together with the
\* end of stream has been forwarded whole
C14_Witness ==
    /\ pc = "done"
    /\ "lastWithEOF" \in hist.steps
    /\ Len(up.body) = 2
    /\ w.body = up.body
    /\ w.flushed = 2
    /\ w.status = up.status

\* C15: a body of more than 10 MiB that reaches the handler is answered 413
\* with nothing parsed, looked up or sent upstream; for a body of 10 MiB or
\* less the handler itself never answers 413
C15_BodyLimit ==
    ("read" \in hist.steps /\ ~req.body.readErr)
       => /\ req.body.size > maxBodySize
               => /\ pc = "done"
                  /\ w.status = 413
                  /\ w.body = <<JSONError("Request body too large")>>
                  /\ hist.steps \cap {"parse", "lookup", "build", "do"} = {}
                  /\ up.attempts = 0
          /\ req.body.size <= maxBodySize
               => /\ "respond" \notin hist.steps => w.status # 413
                  /\ pc # "read"

\* C15 witness: a body one byte over the limit has been refused
C15_Witness ==
    /\ pc = "done"
    /\ req.endpoint = "/v1/messages"
    /\ req.body.size = maxBodySize + 1
    /\ w.status = 413

\* C16: a body that does not parse, one without a model, and one naming an
\* alias that is not configured are each answered 400 (the last with "Unknown
\* model alias") without an upstream call; the gateway is called only for an
\* authenticated POST whose body parsed and whose alias resolved
C16_BadRequestsStopEarly ==
    /\ (pc = "done" /\ ~hist.panicked /\ "parse" \in hist.steps
          /\ (~req.body.valid \/ req.body.model = ""))
          => /\ w.status = 400
             /\ "lookup" \notin hist.steps
             /\ up.attempts = 0
    /\ (pc = "done" /\ ~hist.panicked /\ "lookup" \in hist.steps
          /\ req.body.model \notin DOMAIN store.Models)
          => /\ w.status = 400
             /\ w.body = <<JSONError("Unknown model alias")>>
             /\ up.attempts = 0
    /\ up.attempts > 0
          => /\ ctx.application # ""
             /\ req.method = "POST"
             /\ {"auth", "parse", "lookup"} \subseteq hist.steps
             /\ req.body.valid
             /\ req.body.model \in DOMAIN store.Models

\* C16 witness: an authenticated request for an alias that is not configured
\* has been refused
C16_Witness ==
    /\ pc = "done"
    /\ ctx.application = "app1"
    /\ req.body.valid /\ req.body.model = "nonexistent"
    /\ w.status = 400
    /\ up.attempts = 0

\* C19: after a panic in the handling of a request the caller has a 500
\* response whose body is the generic error text and nothing else
C19_Claim ==
    hist.panicked
       => /\ w.status = 500
          /\ w.body = <<"{\"error\": \"Internal server error\"}\n">>

\* the ID lists that name every configured alias once and nothing else
ExactAliasLists ==
    { ids \in UNION { [1..n -> Aliases] : n \in 0..Cardinality(Aliases) } :
         /\ \A i \in DOMAIN ids : ids[i] \in DOMAIN store.Models
         /\ \A a \in DOMAIN store.Models : Cardinality({ i \in DOMAIN ids : ids[i] = a }) = 1 }

\* C20: /v1/models answers 200 only to an authenticated caller, and the list
\* it returns to a GET has one entry per configured alias, with the alias as
\* its id, and no other entry
C20_ModelsListIsTheAliases ==
    (req.endpoint = "/v1/models" /\ ~hist.panicked)
       => /\ w.status = 200 => ("auth" \in hist.steps /\ ctx.application # "")
          /\ ("method" \in hist.steps /\ req.method = "GET")
                => /\ w.status = 200
                   /\ \E ids \in ExactAliasLists : w.body = <<ModelsListJSON(ids)>>

\* C20 witness: the list of a store with two aliases has been returned
C20_Witness ==
    /\ pc = "done"
    /\ req.endpoint = "/v1/models" /\ req.method = "GET"
    /\ DOMAIN store.Models = {"a1", "a2"}
    /\ w.status = 200
    /\ Len(w.body) = 1

\* C27 (as amended): for a request that /v1/chat/completions sent upstream,
\* the upstream call has the inbound method, the path of the gateway URL
\* followed by the inbound path, and the inbound body with no pass over it
C27_SameMethodBodyAndTargetPath ==
    (req.endpoint = "/v1/chat/completions" /\ up.attempts > 0)
       => /\ up.request.method = req.method
          /\ up.request.path = store.GatewayPath \o req.endpoint
          /\ up.request.body = req.body
          /\ ~up.request.defaulted

\* C27 witness: a chat completion went to a gateway whose URL has a path
C27_Witness ==
    /\ req.endpoint = "/v1/chat/completions"
    /\ up.attempts = 1
    /\ store.GatewayPath = "/gw"
    /\ up.request.path = "/gw/v1/chat/completions"
    /\ up.request.body.size = 120

\* C27 (as stated): the upstream call has the same method, the same path and
\* the same body as the inbound call
C27_Original ==
    (req.endpoint = "/v1/chat/completions" /\ up.attempts > 0)
       => /\ up.request.method = req.method
          /\ up.request.path = req.endpoint
          /\ up.request.body = req.body
          /\ ~up.request.defaulted

\* the step at which the streaming loop is left on a failed write or read
StreamFails ==
    /\ pc = "stream" /\ pc' = "done"
    /\ ~hist'.panicked
    /\ "eof" \notin hist'.steps

\* C28: when a write to the caller or a read from the gateway fails while
\* streaming, the handler returns at that step without a panic and leaves the
\* response as it was: the gateway's status, the bytes already written (a
\* prefix of the gateway's body), no error status and no further byte
C28_StreamFailureStopsSilently ==
    /\ [][StreamFails => (w' = w /\ hist'.steps \cap {"writeError", "readError"} # {})]_vars
    /\ []((pc = "done" /\ hist.steps \cap {"writeError", "readError"} # {})
             => /\ ~hist.panicked
                /\ w.status = up.status /\ w.statusLines = 1
                /\ Len(w.body) <= up.read
                /\ w.body = SubSeq(up.body, 1, Len(w.body))
                /\ ~up.open)

\* C28 witness: the write of the second of two chunks failed after the first
\* was forwarded
C28_Witness ==
    /\ pc = "done"
    /\ "writeError" \in hist.steps
    /\ Len(up.body) = 2 /\ up.read = 2
    /\ Len(w.body) = 1
    /\ w.status = up.status

\* the fields of a completion record: correlation id, identity, endpoint,
\* alias, provider, resolved model, upstream status, duration
CompletionFields ==
    {"request_id", "application", "endpoint", "model_alias", "provider",
     "resolved_model", "status", "duration_ms"}

\* C29: a request that was authenticated and translated and for which
\* handleProxyRequest called the gateway (under a timeout that had not
\* passed at the call) has, when its handler chain has returned, exactly one
\* record in the log that carries all the fields of a completion record,
\* whether the call returned a response or an error
C29_Claim ==
    [][(pc = "done" /\ pc' = "idle" /\ ~hist.panicked /\ "do" \in hist.steps
           /\ up.timeoutSec > 0)
          => Cardinality({ i \in 1..Len(logs') :
                             CompletionFields \subseteq { a[1] : a \in logs'[i].attrs } })
                = 1]_vars

(***************************************************************************)
(* Header forwarding: copyHeaders and setPortkeyHeaders                    *)
(***************************************************************************)
\* the bytes a header field name may hold (validHeaderFieldByte)
TokenChars ==
    "!#$%&'*+-.^_|~0123456789" \o UpperLetters \o LowerLetters

validHeaderFieldByte(c) == \E i \in 1..Len(TokenChars) : CharAt(TokenChars, i) = c

RECURSIVE CanonicalFrom(_, _, _)
\* the loop of the canonical form: the first letter and every letter after a
\* hyphen in upper case, every other letter in lower case
CanonicalFrom(s, i, upper) ==
    IF i > Len(s) THEN ""
    ELSE (IF upper THEN ToUpperCh(CharAt(s, i)) ELSE ToLowerCh(CharAt(s, i)))
            \o CanonicalFrom(s, i + 1, CharAt(s, i) = "-")

\* http.CanonicalHeaderKey: a name holding a byte that is not a token byte is
\* returned as it is
CanonicalHeaderKey(s) ==
    IF \A i \in 1..Len(s) : validHeaderFieldByte(CharAt(s, i))
    THEN CanonicalFrom(s, 1, TRUE)
    ELSE s

\* Header.Add: append the value under the canonical key
HeaderAdd(h, key, value) ==
    LET k == CanonicalHeaderKey(key) IN
    [x \in DOMAIN h \cup {k} |->
        IF x = k
        THEN (IF k \in DOMAIN h THEN Append(h[k], value) ELSE <<value>>)
        ELSE h[x]]

\* Header.Set: the value replaces whatever is under the canonical key
HeaderSet(h, key, value) ==
    LET k == CanonicalHeaderKey(key) IN
    [x \in DOMAIN h \cup {k} |-> IF x = k THEN <<value>> ELSE h[x]]

RECURSIVE AddAll(_, _, _, _)
\* for _, value := range values { dst.Add(key, value) }
AddAll(h, key, values, i) ==
    IF i > Len(values) THEN h
    ELSE AddAll(HeaderAdd(h, key, values[i]), key, values, i + 1)

\* hopByHopHeaders without its Te entry
hopByHopHeaders_NoTe ==
    {"Connection", "Keep-Alive", "Proxy-Authenticate", "Proxy-Authorization",
     "Trailers", "Transfer-Encoding", "Upgrade", "Authorization", "X-Api-Key"}

hopByHopHeaders ==
    {"Connection", "Keep-Alive", "Proxy-Authenticate", "Proxy-Authorization", "Te",
     "Trailers", "Transfer-Encoding", "Upgrade", "Authorization", "X-Api-Key"}

\* one turn of copyHeaders' loop over src, for the key the map iteration yields
copyHeader(src, dst, key) ==
    IF CanonicalHeaderKey(key) \in hopByHopHeaders
    THEN dst
    ELSE AddAll(dst, key, src[key], 1)

joinBetaHeaders(headers) == JoinFrom(headers, 1, ",")

\* an outbound configuration that carries the AWS fields of every provider
buildPortkeyConfig_AWSAlways(model) ==
    LET config == [NoPortkeyConfig EXCEPT !.Retry = model.Retry,
                                          !.RequestTimeout = model.RequestTimeout]
    IN IF model.Strategy.set
       THEN [config EXCEPT !.Strategy = model.Strategy, !.Targets = model.Targets]
       ELSE [config EXCEPT !.Provider = model.Provider, !.APIKey = model.APIKey,
                           !.OverrideParams = model.OverrideParams,
                           !.AWSAccessKeyID = model.AWSAccessKeyID,
                           !.AWSSecretAccessKey = model.AWSSecretAccessKey,
                           !.AWSRegion = model.AWSRegion,
                           !.AWSSessionToken = model.AWSSessionToken,
                           !.VertexProjectID = IF model.Provider = "vertex-ai"
                                               THEN model.VertexProjectID ELSE "",
                           !.VertexRegion = IF model.Provider = "vertex-ai"
                                            THEN model.VertexRegion ELSE "",
                           !.VertexServiceAccountJSON =
                               IF model.Provider = "vertex-ai"
                               THEN model.VertexServiceAccountJSON ELSE ""]

\* an outbound configuration whose targets are cut to the first
buildPortkeyConfig_FirstTarget(model) ==
    LET config == [NoPortkeyConfig EXCEPT !.Retry = model.Retry,
                                          !.RequestTimeout = model.RequestTimeout]
    IN IF model.Strategy.set
       THEN [config EXCEPT !.Strategy = model.Strategy,
                           !.Targets = SubSeq(model.Targets, 1, 1)]
       ELSE [config EXCEPT !.Provider = model.Provider, !.APIKey = model.APIKey,
                           !.OverrideParams = model.OverrideParams]

\* buildPortkeyConfig: Retry and RequestTimeout always; with a strategy, the
\* strategy and a copy of the targets, element by element; without one, the
\* provider, the key, the override parameters pair by pair, and the fields of
\* the provider it is
buildPortkeyConfig(model) ==
    LET config == [NoPortkeyConfig EXCEPT !.Retry = model.Retry,
                                          !.RequestTimeout = model.RequestTimeout]
    IN IF model.Strategy.set
       THEN [config EXCEPT !.Strategy = model.Strategy,
                           !.Targets = [i \in 1..Len(model.Targets) |-> model.Targets[i]]]
       ELSE LET single == [config EXCEPT !.Provider = model.Provider,
                                         !.APIKey = model.APIKey,
                                         !.OverrideParams =
                                             { kv \in model.OverrideParams : TRUE }]
                aws == IF model.Provider = "bedrock"
                       THEN [single EXCEPT !.AWSAccessKeyID = model.AWSAccessKeyID,
                                           !.AWSSecretAccessKey = model.AWSSecretAccessKey,
                                           !.AWSRegion = model.AWSRegion,
                                           !.AWSSessionToken = model.AWSSessionToken]
                       ELSE single
            IN IF model.Provider = "vertex-ai"
               THEN [aws EXCEPT !.VertexProjectID = model.VertexProjectID,
                                !.VertexRegion = model.VertexRegion,
                                !.VertexServiceAccountJSON = model.VertexServiceAccountJSON]
               ELSE aws

JSONString(name, value) == "\"" \o name \o "\":\"" \o value \o "\""

\* a string field tagged omitempty
OmitEmpty(name, value) == IF value = "" THEN <<>> ELSE <<JSONString(name, value)>>

\* json.Marshal of a map[string]interface{} given as key-value pairs: the
\* keys (of those an override map holds here) in sorted order
OverrideJSON(pairs) ==
    LET OverrideKeys == <<"max_tokens", "temperature">>
        member(k) == LET vs == { kv[2] : kv \in { p \in pairs : p[1] = k } } IN
                        IF vs = {} THEN "" ELSE "\"" \o k \o "\":" \o (CHOOSE v \in vs : TRUE)
        present == SelectSeq([i \in 1..Len(OverrideKeys) |-> member(OverrideKeys[i])],
                             LAMBDA m : m # "")
    IN "{" \o JoinFrom(present, 1, ",") \o "}"

\* PortkeyConfig.ToJSON: the fields in declaration order, empty ones omitted;
\* a target's provider is written always
ToJSON(config) ==
    LET TargetJSON(t) ==
            "{" \o JoinFrom(<<JSONString("provider", t.Provider)>>
                               \o OmitEmpty("api_key", t.APIKey)
                               \o OmitEmpty("aws_access_key_id", t.AWSAccessKeyID)
                               \o OmitEmpty("aws_secret_access_key", t.AWSSecretAccessKey)
                               \o OmitEmpty("aws_region", t.AWSRegion), 1, ",") \o "}"
        targets == [i \in 1..Len(config.Targets) |-> TargetJSON(config.Targets[i])]
        fields ==
            OmitEmpty("provider", config.Provider)
            \o OmitEmpty("api_key", config.APIKey)
            \o (IF config.Strategy.set
                THEN <<"\"strategy\":{" \o JSONString("mode", config.Strategy.Mode) \o "}">>
                ELSE <<>>)
            \o (IF Len(config.Targets) > 0
                THEN <<"\"targets\":[" \o JoinFrom(targets, 1, ",") \o "]">> ELSE <<>>)
            \o (IF config.OverrideParams # {}
                THEN <<"\"override_params\":" \o OverrideJSON(config.OverrideParams)>>
                ELSE <<>>)
            \o (IF config.Retry.set
                THEN <<"\"retry\":{\"attempts\":" \o Itoa(config.Retry.Attempts) \o "}">>
                ELSE <<>>)
            \o (IF config.RequestTimeout # 0
                THEN <<"\"request_timeout\":" \o Itoa(config.RequestTimeout)>> ELSE <<>>)
            \o OmitEmpty("aws_access_key_id", config.AWSAccessKeyID)
            \o OmitEmpty("aws_secret_access_key", config.AWSSecretAccessKey)
            \o OmitEmpty("aws_region", config.AWSRegion)
            \o OmitEmpty("aws_session_token", config.AWSSessionToken)
            \o OmitEmpty("vertex_project_id", config.VertexProjectID)
            \o OmitEmpty("vertex_region", config.VertexRegion)
            \o OmitEmpty("vertex_service_account_json", config.VertexServiceAccountJSON)
    IN "{" \o JoinFrom(fields, 1, ",") \o "}"

\* setPortkeyHeaders on the upstream request's header
setPortkeyHeaders(h, config, model) ==
    LET provider == getProviderFromConfig(model)
        h1 == HeaderSet(h, "x-portkey-config", ToJSON(config))
        h2 == HeaderSet(h1, "x-portkey-provider", provider)
        h3 == IF provider = "vertex-ai"
              THEN HeaderSet(HeaderSet(h2, "x-portkey-vertex-project-id",
                                       model.VertexProjectID),
                             "x-portkey-vertex-region", model.VertexRegion)
              ELSE h2
    IN IF provider = "anthropic" /\ Len(model.BetaHeaders) > 0
       THEN HeaderSet(h3, "x-portkey-anthropic-beta", joinBetaHeaders(model.BetaHeaders))
       ELSE h3

(***************************************************************************)
(* Inputs and actions of the header-forwarding specification               *)
(***************************************************************************)
MaxHeaders == 2

\* field names as a caller may write them
WireNames ==
    {"TE", "authorization", "X-Api-Key", "x-custom", "X-Custom", "x-portkey-config",
     "X-Portkey-Vertex-Region", "x-portkey-anthropic-beta"}

\* the value of the i-th field a caller sends
CallerValues == <<"v1", "v2", "v3", "v4">>

Wires ==
    UNION { { [i \in 1..n |-> [name |-> f[i], value |-> CallerValues[i]]] :
                f \in [1..n -> WireNames] } : n \in 0..MaxHeaders }

HeaderModels ==
    {[NoModel EXCEPT !.Provider = "openai"],
     [NoModel EXCEPT !.Provider = "anthropic"],
     [NoModel EXCEPT !.Provider = "anthropic", !.BetaHeaders = <<"b1", "b2">>],
     [NoModel EXCEPT !.Provider = "vertex-ai", !.VertexProjectID = "p1",
                     !.VertexRegion = "r1", !.VertexServiceAccountJSON = "sa1"],
     [NoModel EXCEPT !.Strategy = [set |-> TRUE, Mode |-> "fallback"],
                     !.Targets = <<[NoTarget EXCEPT !.Provider = "openai", !.APIKey = "x"],
                                   [NoTarget EXCEPT !.Provider = "anthropic",
                                                    !.APIKey = "x"]>>]}

InitHeaders ==
    /\ store = [ProxyKeys |-> PipeProxyKeys,
                Models |-> [a \in Aliases |-> [Provider |-> "openai", RequestTimeout |-> 0]],
                GatewayURLValid |-> TRUE, GatewayPath |-> ""]
    /\ AuthIdle
    /\ PipeIdle
    /\ msgs = NoMsg
    /\ conf = NoCfg
    /\ hdr \in { [NoHdr EXCEPT !.step = "read", !.wire = wr, !.model = m] :
                    wr \in Wires, m \in HeaderModels }

RECURSIVE ReadFrom(_, _, _)
\* the server reads the header fields in order into r.Header
ReadFrom(h, wire, i) ==
    IF i > Len(wire) THEN h
    ELSE ReadFrom(HeaderAdd(h, wire[i].name, wire[i].value), wire, i + 1)

\* the request reaches handleProxyRequest with r.Header read and
\* proxyReq.Header empty
ReadHeaders ==
    /\ hdr.step = "read"
    /\ LET src == ReadFrom(EmptyHeader, hdr.wire, 1) IN
          hdr' = [hdr EXCEPT !.step = "copy", !.src = src, !.todo = DOMAIN src]
    /\ UNCHANGED <<store, conc, msgs, conf, authVars, pipeVars>>

\* copyHeaders: one turn of the loop, in the order the map iteration gives
CopyHeaderStep ==
    /\ hdr.step = "copy"
    /\ \E key \in hdr.todo :
          hdr' = [hdr EXCEPT !.dst = copyHeader(hdr.src, hdr.dst, key),
                             !.todo = @ \ {key}]
    /\ UNCHANGED <<store, conc, msgs, conf, authVars, pipeVars>>

\* setPortkeyHeaders(proxyReq, portkeyConfig, modelConfig) after copyHeaders
SetHeadersStep ==
    /\ hdr.step = "copy"
    /\ hdr.todo = {}
    /\ hdr' = [hdr EXCEPT !.step = "set",
                          !.dst = setPortkeyHeaders(hdr.dst, buildPortkeyConfig(hdr.model),
                                                    hdr.model)]
    /\ UNCHANGED <<store, conc, msgs, conf, authVars, pipeVars>>

NextHeaders == ReadHeaders \/ CopyHeaderStep \/ SetHeadersStep

SpecHeaders == InitHeaders /\ [][NextHeaders]_vars

(***************************************************************************)
(* Header-forwarding claims (under SpecHeaders)                            *)
(***************************************************************************)
\* the names the forwarding contract excludes, in lower case
ExcludedNames ==
    {"connection", "keep-alive", "proxy-authenticate", "proxy-authorization", "te",
     "trailers", "transfer-encoding", "upgrade", "authorization", "x-api-key"}

\* the values, in order, of the fields of wire whose name is k up to case
ValuesOf(wire, k) ==
    LET F[i \in 0..Len(wire)] ==
            IF i = 0 THEN <<>>
            ELSE IF ToLower(wire[i].name) = ToLower(k)
                 THEN Append(F[i - 1], wire[i].value)
                 ELSE F[i - 1]
    IN F[Len(wire)]

CopyDone == hdr.step = "copy" /\ hdr.todo = {}

\* C9: when copyHeaders has returned, an inbound header is in the upstream
\* request if and only if its name, compared without regard to case, is not one
\* of Connection, Keep-Alive, Proxy-Authenticate, Proxy-Authorization, Te,
\* Trailers, Transfer-Encoding, Upgrade, Authorization, X-Api-Key; and every
\* header of the upstream request holds exactly the values the caller sent
\* under that name, in the order sent.
C9_ForwardsExactlyTheOthers ==
    CopyDone =>
        /\ \A i \in 1..Len(hdr.wire) :
              (CanonicalHeaderKey(hdr.wire[i].name) \in DOMAIN hdr.dst)
                  <=> (ToLower(hdr.wire[i].name) \notin ExcludedNames)
        /\ \A k \in DOMAIN hdr.dst :
              /\ hdr.dst[k] = hdr.src[k]
              /\ hdr.dst[k] = ValuesOf(hdr.wire, k)

\* C9 witness: of the fields TE and x-custom only x-custom was copied
C9_Witness ==
    /\ CopyDone
    /\ Len(hdr.wire) = 2
    /\ hdr.wire[1].name = "TE" /\ hdr.wire[2].name = "x-custom"
    /\ DOMAIN hdr.dst = {"X-Custom"}
    /\ hdr.dst["X-Custom"] = <<"v2">>

\* the headers setPortkeyHeaders may set, by canonical key
CoreHeaderKeys ==
    {"X-Portkey-Config", "X-Portkey-Provider", "X-Portkey-Vertex-Project-Id",
     "X-Portkey-Vertex-Region", "X-Portkey-Anthropic-Beta"}

CallerSupplied == { hdr.wire[i].value : i \in 1..Len(hdr.wire) }

\* C10 (as stated): in the upstream request as it is sent, none of
\* x-portkey-config, x-portkey-provider, x-portkey-vertex-project-id,
\* x-portkey-vertex-region and x-portkey-anthropic-beta holds a value the
\* caller supplied.
C10_Claim ==
    hdr.step = "set" =>
        \A k \in CoreHeaderKeys \cap DOMAIN hdr.dst :
            \A i \in 1..Len(hdr.dst[k]) : hdr.dst[k][i] \notin CallerSupplied

(***************************************************************************)
(* MessagesHandler: the defaulting of max_tokens and the thinking directive *)
(***************************************************************************)
\* the JSON names of the fields of models.MessagesRequest the handler reads
MessagesFields == {"model", "max_tokens", "thinking"}

\* the field a key of the body is decoded into by encoding/json: the field of
\* that name, else the field equal to it without regard to case; "" when none
FieldFor(key) ==
    IF key \in MessagesFields THEN key
    ELSE IF ToLower(key) \in MessagesFields THEN ToLower(key)
    ELSE ""

\* one member of the body decoded into req: null leaves a string or an int
\* as it is and clears a pointer; a value of the wrong type is an error that
\* json.Unmarshal reports after decoding the rest
DecodeField(r, fld) ==
    LET name == FieldFor(fld.key)
        v == fld.val
    IN  IF name = "model"
        THEN IF v.t = "str" THEN [r EXCEPT !.Model = v.s]
             ELSE IF v.t = "null" THEN r
             ELSE [r EXCEPT !.err = TRUE]
        ELSE IF name = "max_tokens"
        THEN IF v.t = "num" /\ ~v.f THEN [r EXCEPT !.MaxTokens = v.n]
             ELSE IF v.t = "big" THEN [r EXCEPT !.MaxTokens = 2147483647]
             ELSE IF v.t = "null" THEN r
             ELSE [r EXCEPT !.err = TRUE]
        ELSE IF name = "thinking"
        THEN IF v.t = "obj" THEN [r EXCEPT !.Thinking = TRUE]
             ELSE IF v.t = "null" THEN [r EXCEPT !.Thinking = FALSE]
             ELSE [r EXCEPT !.err = TRUE]
        ELSE r

RECURSIVE DecodeFrom(_, _, _)
DecodeFrom(r, body, i) ==
    IF i > Len(body) THEN r
    ELSE DecodeFrom(DecodeField(r, body[i]), body, i + 1)

\* json.Unmarshal(body, &req) with req a MessagesRequest
UnmarshalRequest(body) == DecodeFrom(NoMessagesRequest, body, 1)

\* a JSON number decoded into an interface{}: the nearest float64, ties to the
\* even mantissa; from 2^53 to 2^54 only the even integers are float64s
float64Of(v) ==
    IF v.t = "big" /\ v.n % 2 = 1
    THEN JBig(IF ((v.n - 1) \div 2) % 2 = 0 THEN v.n - 1 ELSE v.n + 1)
    ELSE v

\* json.Unmarshal(body, &bodyMap): the members by their exact key, the last
\* occurrence of a key winning, each number as a float64
UnmarshalMap(body) ==
    [k \in { body[i].key : i \in 1..Len(body) } |->
        float64Of(body[CHOOSE i \in 1..Len(body) :
                          /\ body[i].key = k
                          /\ \A j \in (i + 1)..Len(body) : body[j].key # k].val)]

\* bodyMap[key] = value
MapSet(bodyMap, key, value) ==
    [k \in DOMAIN bodyMap \cup {key} |-> IF k = key THEN value ELSE bodyMap[k]]

\* the keys of the bodies considered, in the byte order json.Marshal sorts by
KeyOrder ==
    <<"MAX_TOKENS", "Thinking", "max_tokens", "messages", "model", "seed", "thinking">>

\* json.Marshal(bodyMap): the members in the sorted order of their keys
Marshal(bodyMap) ==
    LET present == SelectSeq(KeyOrder, LAMBDA k : k \in DOMAIN bodyMap)
    IN  [i \in 1..Len(present) |-> [key |-> present[i], val |-> bodyMap[present[i]]]]

DefaultMaxTokens == 4096

\* the budget with the alias's override ignored
resolveMaxTokens_NoOverride(override) == DefaultMaxTokens

\* the budget for a request without one: override_params["max_tokens"] when
\* it is a float64, converted with int(); 4096 when that leaves zero
resolveMaxTokens(override) ==
    LET mt == IF override.t = "num" THEN override.n ELSE 0
    IN  IF mt = 0 THEN DefaultMaxTokens ELSE mt

\* the max_tokens step re-serialising the body of every request
ensureMaxTokens_Always(body, r, override) ==
    LET mt == IF r.MaxTokens = 0 THEN resolveMaxTokens(override) ELSE r.MaxTokens
    IN  [body |-> Marshal(MapSet(UnmarshalMap(body), "max_tokens", JNum(mt))),
         req |-> [r EXCEPT !.MaxTokens = mt]]

\* "Ensure max_tokens is set": the body and req after the step
ensureMaxTokens(body, r, override) ==
    IF r.MaxTokens = 0
    THEN LET mt == resolveMaxTokens(override)
         IN  [body |-> Marshal(MapSet(UnmarshalMap(body), "max_tokens", JNum(mt))),
              req |-> [r EXCEPT !.MaxTokens = mt]]
    ELSE [body |-> body, req |-> r]

\* "Inject thinking configuration if present in model config"
injectThinking(body, r, thinking) ==
    IF thinking /\ ~r.Thinking
    THEN Marshal(MapSet(UnmarshalMap(body), "thinking", JObj("alias-thinking")))
    ELSE body

(***************************************************************************)
(* Inputs and actions of the messages-body specification                   *)
(***************************************************************************)
MaxFields == 3

\* members a caller may put in the body of POST /v1/messages
BodyFields ==
    {[key |-> "model", val |-> JStr("a1")],
     [key |-> "max_tokens", val |-> JNum(0)],
     [key |-> "max_tokens", val |-> JNum(5)],
     [key |-> "max_tokens", val |-> JStr("5")],
     [key |-> "MAX_TOKENS", val |-> JNum(7)],
     [key |-> "thinking", val |-> JObj("caller-thinking")],
     [key |-> "Thinking", val |-> JNull],
     [key |-> "seed", val |-> JBig(1)]}

MessageBodies == UNION { [1..n -> BodyFields] : n \in 0..MaxFields }

\* override_params["max_tokens"] of the alias: not set, 0, 1024, 2048.5, "1024"
OverrideValues == {JAbsent, JNum(0), JNum(1024), JFrac(2048), JStr("1024")}

InitMessages ==
    /\ store = [ProxyKeys |-> PipeProxyKeys,
                Models |-> [a \in Aliases |-> [Provider |-> "openai", RequestTimeout |-> 0]],
                GatewayURLValid |-> TRUE, GatewayPath |-> ""]
    /\ AuthIdle
    /\ PipeIdle
    /\ hdr = NoHdr
    /\ conf = NoCfg
    /\ msgs \in { [NoMsg EXCEPT !.step = "read", !.body = b, !.out = b,
                                !.override = o, !.thinking = th] :
                     b \in MessageBodies, o \in OverrideValues, th \in BOOLEAN }

\* json.Unmarshal(body, &req) and the check of req.Model; the alias resolves
MessagesDecode ==
    /\ msgs.step = "read"
    /\ LET r == UnmarshalRequest(msgs.body) IN
          IF r.err \/ r.Model = ""
          THEN msgs' = [msgs EXCEPT !.step = "done", !.req = r, !.status = 400]
          ELSE msgs' = [msgs EXCEPT !.step = "max_tokens", !.req = r]
    /\ UNCHANGED <<store, conc, hdr, conf, authVars, pipeVars>>

\* the max_tokens step
MessagesMaxTokens ==
    /\ msgs.step = "max_tokens"
    /\ LET res == ensureMaxTokens(msgs.out, msgs.req, msgs.override) IN
          msgs' = [msgs EXCEPT !.step = "thinking", !.out = res.body, !.req = res.req]
    /\ UNCHANGED <<store, conc, hdr, conf, authVars, pipeVars>>

\* the thinking step, and the body handed to handleProxyRequest
MessagesThinking ==
    /\ msgs.step = "thinking"
    /\ msgs' = [msgs EXCEPT !.step = "sent",
                            !.out = injectThinking(msgs.out, msgs.req, msgs.thinking)]
    /\ UNCHANGED <<store, conc, hdr, conf, authVars, pipeVars>>

NextMessages == MessagesDecode \/ MessagesMaxTokens \/ MessagesThinking

SpecMessages == InitMessages /\ [][NextMessages]_vars

(***************************************************************************)
(* Messages-body claims (under SpecMessages)                               *)
(***************************************************************************)
\* the budget the caller's body supplies, as encoding/json reads it
SuppliedMaxTokens == UnmarshalRequest(msgs.body).MaxTokens

\* the members of a body named max_tokens
MaxTokensMembers(body) == { i \in 1..Len(body) : body[i].key = "max_tokens" }

\* C11 (as amended): when the caller's body supplies a nonzero max_tokens, the
\* body sent upstream is the inbound body unchanged, provided the alias
\* configures no thinking directive or the body carries one itself; when the
\* alias configures one and the body carries none, the body sent upstream is
\* the body re-serialised: its members by key with their values, and the
\* alias's thinking directive added.
C11_UnchangedUnlessThinking ==
    (msgs.step = "sent" /\ SuppliedMaxTokens # 0) =>
        IF msgs.thinking /\ ~msgs.req.Thinking
        THEN UnmarshalMap(msgs.out) =
                MapSet(UnmarshalMap(msgs.body), "thinking", JObj("alias-thinking"))
        ELSE msgs.out = msgs.body

\* C11 witness: a body with max_tokens 5 ahead of model, whose members are not
\* in sorted order, was sent as it came
C11_Witness ==
    /\ msgs.step = "sent"
    /\ msgs.body = <<[key |-> "model", val |-> JStr("a1")],
                     [key |-> "max_tokens", val |-> JNum(5)]>>
    /\ msgs.out = msgs.body

\* C11 (as stated): when the caller's body supplies a nonzero max_tokens, the
\* body sent upstream is the inbound body, whatever the alias configures.
C11_Original ==
    (msgs.step = "sent" /\ SuppliedMaxTokens # 0) => msgs.out = msgs.body

\* the value the claim names for a request without a budget
C12_ExpectedValue ==
    IF msgs.override.t = "num" /\ msgs.override.n # 0
    THEN JNum(msgs.override.n) ELSE JNum(DefaultMaxTokens)

\* C12 (as amended): when the caller's body supplies no token budget (none, or
\* zero), the body sent upstream has exactly one member max_tokens; its value
\* is the alias's override_params max_tokens cut to an integer when that is a
\* number whose integer part is not zero, and 4096 otherwise; the max_tokens
\* step applied to that body again leaves it as it is.
C12_OneInjectedValue ==
    (msgs.step = "sent" /\ SuppliedMaxTokens = 0) =>
        /\ Cardinality(MaxTokensMembers(msgs.out)) = 1
        /\ \A i \in MaxTokensMembers(msgs.out) : msgs.out[i].val = C12_ExpectedValue
        /\ ensureMaxTokens(msgs.out, UnmarshalRequest(msgs.out), msgs.override).body
              = msgs.out

\* C12 witness: a body without max_tokens for an alias overriding it with 1024
C12_Witness ==
    /\ msgs.step = "sent"
    /\ msgs.body = <<[key |-> "model", val |-> JStr("a1")]>>
    /\ msgs.override = JNum(1024)
    /\ ~msgs.thinking
    /\ msgs.out = <<[key |-> "max_tokens", val |-> JNum(1024)],
                    [key |-> "model", val |-> JStr("a1")]>>

\* C12 (as stated): the one max_tokens member has the alias's override_params
\* max_tokens as its value whenever the alias has one, and 4096 otherwise.
C12_Original ==
    (msgs.step = "sent" /\ SuppliedMaxTokens = 0) =>
        /\ Cardinality(MaxTokensMembers(msgs.out)) = 1
        /\ \A i \in MaxTokensMembers(msgs.out) :
              msgs.out[i].val = IF msgs.override.t # "absent"
                                THEN msgs.override ELSE JNum(DefaultMaxTokens)

\* the members of a body by key, the last occurrence of a key winning, with
\* the values as they are written
MembersOf(body) ==
    [k \in { body[i].key : i \in 1..Len(body) } |->
        body[CHOOSE i \in 1..Len(body) :
                /\ body[i].key = k
                /\ \A j \in (i + 1)..Len(body) : body[j].key # k].val]

\* the caller's body supplies a thinking directive: its last member of that
\* name is an object
CallerThinking ==
    LET m == MembersOf(msgs.body) IN "thinking" \in DOMAIN m /\ m["thinking"].t = "obj"

\* C25 (as stated): the body sent upstream carries the alias's thinking
\* directive exactly when the alias declares one and the caller's body
\* supplies none; a directive of the caller's is sent on as it is, and for an
\* alias without a directive no thinking member is added
C25_Claim ==
    msgs.step = "sent"
       => LET in == MembersOf(msgs.body)
              out == MembersOf(msgs.out)
              carries == "thinking" \in DOMAIN out
                            /\ out["thinking"] = JObj("alias-thinking")
          IN /\ carries <=> (msgs.thinking /\ ~CallerThinking)
             /\ CallerThinking
                   => ("thinking" \in DOMAIN out /\ out["thinking"] = in["thinking"])
             /\ ~msgs.thinking
                   => ("thinking" \in DOMAIN out <=> "thinking" \in DOMAIN in)

\* C26 (as stated): every member of the caller's body other than max_tokens
\* and thinking is in the body sent upstream with the same value
C26_Claim ==
    msgs.step = "sent"
       => LET in == MembersOf(msgs.body)
              out == MembersOf(msgs.out)
          IN \A k \in DOMAIN in \ {"max_tokens", "thinking"} :
                k \in DOMAIN out /\ out[k] = in[k]

(***************************************************************************)
(* Validation of an alias configuration: validateModelConfig               *)
(***************************************************************************)
\* the error a validation returns: nil, or what the message complains of
NoError == "nil"

\* validateProviderConfig: the requirements of one target's provider
validateProviderConfig(provider, target) ==
    IF provider \in {"anthropic", "openai", "google"}
    THEN (IF target.APIKey = "" THEN "missing api_key" ELSE NoError)
    ELSE IF provider = "bedrock"
    THEN (IF target.AWSAccessKeyID = "" \/ target.AWSSecretAccessKey = ""
             \/ target.AWSRegion = ""
          THEN "missing AWS credentials" ELSE NoError)
    ELSE NoError

\* a single-provider check that lets a vertex-ai config pass without its
\* service account
validateSingleProviderConfig_NoServiceAccount(model) ==
    IF model.Provider \in {"anthropic", "openai", "google"}
    THEN (IF model.APIKey = "" THEN "missing api_key" ELSE NoError)
    ELSE IF model.Provider = "bedrock"
    THEN (IF model.AWSAccessKeyID = "" \/ model.AWSSecretAccessKey = ""
             \/ model.AWSRegion = ""
          THEN "missing AWS credentials" ELSE NoError)
    ELSE IF model.Provider = "vertex-ai"
    THEN (IF model.VertexProjectID = "" \/ model.VertexRegion = ""
          THEN "missing Vertex AI configuration" ELSE NoError)
    ELSE "unknown provider"

\* validateSingleProviderConfig: the requirements of the alias's own provider
validateSingleProviderConfig(model) ==
    IF model.Provider \in {"anthropic", "openai", "google"}
    THEN (IF model.APIKey = "" THEN "missing api_key" ELSE NoError)
    ELSE IF model.Provider = "bedrock"
    THEN (IF model.AWSAccessKeyID = "" \/ model.AWSSecretAccessKey = ""
             \/ model.AWSRegion = ""
          THEN "missing AWS credentials" ELSE NoError)
    ELSE IF model.Provider = "vertex-ai"
    THEN (IF model.VertexProjectID = "" \/ model.VertexRegion = ""
             \/ model.VertexServiceAccountJSON = ""
          THEN "missing Vertex AI configuration" ELSE NoError)
    ELSE "unknown provider"

RECURSIVE validateTargetsFrom(_, _)
\* the loop over model.Targets from index i on: the first error ends it
validateTargetsFrom(targets, i) ==
    IF i > Len(targets) THEN NoError
    ELSE IF targets[i].Provider = "" THEN "target has no provider"
    ELSE LET err == validateProviderConfig(targets[i].Provider, targets[i]) IN
            IF err # NoError THEN err ELSE validateTargetsFrom(targets, i + 1)

\* a strategy check that lets every mode pass
validateModelConfig_AnyMode(model) ==
    IF model.Strategy.set
    THEN IF Len(model.Targets) = 0 THEN "strategy but no targets"
         ELSE validateTargetsFrom(model.Targets, 1)
    ELSE IF model.Provider = "" THEN "no provider"
         ELSE validateSingleProviderConfig(model)

\* validateModelConfig
validateModelConfig(model) ==
    IF model.Strategy.set
    THEN IF Len(model.Targets) = 0 THEN "strategy but no targets"
         ELSE IF model.Strategy.Mode # "fallback" /\ model.Strategy.Mode # "loadbalance"
         THEN "invalid strategy mode"
         ELSE validateTargetsFrom(model.Targets, 1)
    ELSE IF model.Provider = "" THEN "no provider"
         ELSE validateSingleProviderConfig(model)

(***************************************************************************)
(* Inputs of the validation specification                                  *)
(***************************************************************************)
MaxTargets == 2
Credentials == {"", "x"}
ProviderIDs == {"", "anthropic", "openai", "google", "bedrock", "vertex-ai", "azure-openai"}
StrategyModes == {"fallback", "loadbalance", "single", ""}
TargetConfigs ==
    [Provider : {"", "openai", "bedrock", "vertex-ai", "cohere"}, APIKey : Credentials,
     AWSAccessKeyID : {"x"}, AWSSecretAccessKey : {"x"}, AWSRegion : Credentials]
       \cup [Provider : {"bedrock"}, APIKey : {""}, AWSAccessKeyID : Credentials,
             AWSSecretAccessKey : Credentials, AWSRegion : {"x"}]
TargetLists == UNION { [1..n -> TargetConfigs] : n \in 0..MaxTargets }

OverrideMaps == {{}, {<<"max_tokens", "1024">>, <<"temperature", "0.5">>}}

\* alias configurations without a strategy, and with one
SingleConfigs ==
    { [NoModel EXCEPT !.Provider = p, !.APIKey = c[1], !.Targets = ts,
                      !.OverrideParams = o, !.RequestTimeout = 30000,
                      !.AWSAccessKeyID = c[2], !.AWSSecretAccessKey = c[3],
                      !.AWSRegion = c[4], !.AWSSessionToken = c[1],
                      !.VertexProjectID = c[5], !.VertexRegion = c[6],
                      !.VertexServiceAccountJSON = c[7]] :
         p \in ProviderIDs, c \in [1..7 -> Credentials], o \in OverrideMaps,
         ts \in {<<>>, <<[NoTarget EXCEPT !.Provider = "openai", !.APIKey = "x"]>>} }
StrategyConfigs ==
    { [NoModel EXCEPT !.Strategy = [set |-> TRUE, Mode |-> m], !.Targets = ts,
                      !.Provider = k[1], !.APIKey = k[2],
                      !.OverrideParams = IF k[2] = "" THEN {} ELSE {<<"max_tokens", "1024">>},
                      !.Retry = [set |-> TRUE, Attempts |-> 3]] :
         m \in StrategyModes, ts \in TargetLists,
         k \in {<<"", "">>, <<"openai", "">>, <<"openai", "x">>} }

\* one decoded configuration file waits for its validation
InitConfig ==
    /\ store = [ProxyKeys |-> PipeProxyKeys,
                Models |-> [a \in Aliases |-> [Provider |-> "openai", RequestTimeout |-> 0]],
                GatewayURLValid |-> TRUE, GatewayPath |-> ""]
    /\ AuthIdle
    /\ PipeIdle
    /\ hdr = NoHdr
    /\ msgs = NoMsg
    /\ conf \in { [NoCfg EXCEPT !.step = "loaded", !.model = m] :
                     m \in SingleConfigs \cup StrategyConfigs }

\* ValidateConfig validates a configuration that was loaded
ValidateModel ==
    /\ conf.step = "loaded"
    /\ conf' = [conf EXCEPT !.step = "validated", !.verdict = validateModelConfig(conf.model)]
    /\ UNCHANGED <<store, conc, hdr, msgs, authVars, pipeVars>>

\* a request for an alias whose configuration was accepted reaches
\* handleProxyRequest: portkeyConfig := buildPortkeyConfig(modelConfig)
BuildConfig ==
    /\ conf.step = "validated"
    /\ conf.verdict = NoError
    /\ conf' = [conf EXCEPT !.step = "built", !.out = buildPortkeyConfig(conf.model)]
    /\ UNCHANGED <<store, conc, hdr, msgs, authVars, pipeVars>>

NextConfig == ValidateModel \/ BuildConfig

SpecConfig == InitConfig /\ [][NextConfig]_vars

C18_Satisfied(m) ==
    \/ m.Provider \in {"anthropic", "openai", "google"} /\ m.APIKey # ""
    \/ m.Provider = "bedrock"
          /\ m.AWSAccessKeyID # "" /\ m.AWSSecretAccessKey # "" /\ m.AWSRegion # ""
    \/ m.Provider = "vertex-ai"
          /\ m.VertexProjectID # "" /\ m.VertexRegion # ""
          /\ m.VertexServiceAccountJSON # ""

\* C18: a configuration without a strategy is accepted exactly when its
\* provider is one of the five known ones and the fields that provider needs
\* are all there; a missing provider, an unknown one, and a missing field are
\* rejected
C18_SingleProviderRequirements ==
    (conf.step = "validated" /\ ~conf.model.Strategy.set)
       => (conf.verdict = NoError <=> C18_Satisfied(conf.model))

\* C18 witness: a vertex-ai configuration has been rejected for its missing
\* service account alone
C18_Witness ==
    /\ conf.step = "validated"
    /\ ~conf.model.Strategy.set
    /\ conf.model.Provider = "vertex-ai"
    /\ conf.model.VertexProjectID # "" /\ conf.model.VertexRegion # ""
    /\ conf.model.VertexServiceAccountJSON = ""
    /\ conf.verdict # NoError

\* the two shapes of an alias configuration
StrategyShape(m) == m.Strategy.set /\ Len(m.Targets) >= 1

\* C21 (as stated): an accepted configuration has the single-provider fields
\* (the provider with what it needs) or a strategy with targets, and not both
C21_Claim ==
    (conf.step # "loaded" /\ conf.verdict = NoError)
       => (C18_Satisfied(conf.model) # StrategyShape(conf.model))

\* what a target's provider asks for; the Vertex fields are the alias's own
C22_TargetSatisfied(m, t) ==
    \/ t.Provider \in {"anthropic", "openai", "google"} /\ t.APIKey # ""
    \/ t.Provider = "bedrock"
          /\ t.AWSAccessKeyID # "" /\ t.AWSSecretAccessKey # "" /\ t.AWSRegion # ""
    \/ t.Provider = "vertex-ai"
          /\ m.VertexProjectID # "" /\ m.VertexRegion # ""
          /\ m.VertexServiceAccountJSON # ""

\* C22 (as stated): every target of an accepted strategy configuration has
\* one of the five providers and what that provider needs
C22_Claim ==
    (conf.step # "loaded" /\ conf.verdict = NoError /\ conf.model.Strategy.set)
       => \A i \in 1..Len(conf.model.Targets) :
             C22_TargetSatisfied(conf.model, conf.model.Targets[i])

\* C23: for an alias without a strategy the outbound configuration has the
\* alias's provider, key and override parameters, the alias's AWS fields when
\* the provider is bedrock and empty ones otherwise, the alias's Vertex fields
\* when it is vertex-ai and empty ones otherwise (so the required fields are
\* there exactly for their provider), and neither a strategy nor targets
C23_SingleProviderConfig ==
    (conf.step = "built" /\ ~conf.model.Strategy.set)
       => LET m == conf.model
              c == conf.out
              aws(r) == <<r.AWSAccessKeyID, r.AWSSecretAccessKey, r.AWSRegion,
                          r.AWSSessionToken>>
              vertex(r) == <<r.VertexProjectID, r.VertexRegion, r.VertexServiceAccountJSON>>
          IN /\ c.Provider = m.Provider
             /\ c.APIKey = m.APIKey
             /\ c.OverrideParams = m.OverrideParams
             /\ aws(c) = IF m.Provider = "bedrock" THEN aws(m) ELSE <<"", "", "", "">>
             /\ vertex(c) = IF m.Provider = "vertex-ai" THEN vertex(m) ELSE <<"", "", "">>
             /\ (c.AWSAccessKeyID # "" /\ c.AWSSecretAccessKey # "" /\ c.AWSRegion # "")
                   <=> m.Provider = "bedrock"
             /\ (\A i \in 1..3 : vertex(c)[i] # "") <=> m.Provider = "vertex-ai"
             /\ ~c.Strategy.set
             /\ c.Targets = <<>>

\* C23 witness: the configuration of a bedrock alias that also holds Vertex
\* fields and override parameters has been built
C23_Witness ==
    /\ conf.step = "built"
    /\ ~conf.model.Strategy.set
    /\ conf.model.Provider = "bedrock"
    /\ conf.model.VertexProjectID # ""
    /\ conf.model.OverrideParams # {}
    /\ conf.out.AWSRegion = "x"
    /\ conf.out.VertexProjectID = ""

\* C24: for an alias with a strategy the outbound configuration has the
\* alias's strategy and its targets, as many, in the same order and each
\* unchanged, and none of the single-provider fields
C24_StrategyConfig ==
    (conf.step = "built" /\ conf.model.Strategy.set)
       => LET m == conf.model
              c == conf.out
          IN /\ c.Strategy.set /\ c.Strategy.Mode = m.Strategy.Mode
             /\ Len(c.Targets) = Len(m.Targets)
             /\ \A i \in 1..Len(m.Targets) : c.Targets[i] = m.Targets[i]
             /\ c.Provider = "" /\ c.APIKey = "" /\ c.OverrideParams = {}
             /\ c.AWSAccessKeyID = "" /\ c.AWSSecretAccessKey = "" /\ c.AWSRegion = ""
             /\ c.AWSSessionToken = ""
             /\ c.VertexProjectID = "" /\ c.VertexRegion = ""
             /\ c.VertexServiceAccountJSON = ""

\* C24 witness: the configuration of a loadbalance over two different targets,
\* whose alias also names a provider with its key, has been built
C24_Witness ==
    /\ conf.step = "built"
    /\ conf.model.Strategy.Mode = "loadbalance"
    /\ Len(conf.model.Targets) = 2
    /\ conf.model.Targets[1] # conf.model.Targets[2]
    /\ conf.model.Provider = "openai" /\ conf.model.APIKey = "x"
    /\ Len(conf.out.Targets) = 2

(***************************************************************************)
(* Concurrent requests on /v1/messages over one configuration snapshot     *)
(*                                                                         *)
(* net/http serves each request on a goroutine of its own; all of them     *)
(* hold the same *models.ConfigStore.  modelConfig := store.Models[alias]  *)
(* copies the struct, so its map and slice fields still name the store's   *)
(* objects: a write through them would be a write to the snapshot.  What   *)
(* a request writes is recorded where the code writes it: in the objects   *)
(* the request made itself (conc[r]), or in store.                         *)
(***************************************************************************)
InitConcurrent ==
    /\ store \in { [ProxyKeys |-> PipeProxyKeys,
                    Models |-> [a \in Aliases |-> IF a = "a1" THEN m1 ELSE m2],
                    GatewayURLValid |-> TRUE, GatewayPath |-> ""] :
                     m1 \in { [NoModel EXCEPT !.Provider = "openai", !.APIKey = "x",
                                              !.OverrideParams = o] : o \in OverrideMaps },
                     m2 \in { [NoModel EXCEPT !.Provider = "bedrock",
                                              !.AWSAccessKeyID = "x",
                                              !.AWSSecretAccessKey = "x",
                                              !.AWSRegion = "x"],
                              [NoModel EXCEPT
                                  !.Strategy = [set |-> TRUE, Mode |-> "fallback"],
                                  !.Targets =
                                      <<[NoTarget EXCEPT !.Provider = "openai",
                                                         !.APIKey = "x"],
                                        [NoTarget EXCEPT !.Provider = "anthropic",
                                                         !.APIKey = "x"]>>] } }
    /\ AuthIdle
    /\ PipeIdle
    /\ hdr = NoHdr
    /\ msgs = NoMsg
    /\ conf = NoCfg

\* a request arrives with a key, and a body naming an alias, with or without
\* a budget; AuthMiddleware looks the key up in the map made of
\* store.ProxyKeys and calls the handler or answers 401
ConcAuth(r) ==
    /\ conc[r].pc = "idle"
    /\ \E h \in PipeAuthHeaders, a \in Aliases \cup {"zz"}, mt \in {"", "256"} :
          LET out == AuthMiddleware(store.ProxyKeys, h, "") IN
          conc' = [conc EXCEPT ![r] =
                      IF out.next
                      THEN [@ EXCEPT !.pc = "lookup", !.application = out.application,
                                     !.alias = a,
                                     !.bodyMap = IF mt = "" THEN ("model" :> a)
                                                 ELSE ("model" :> a) @@ ("max_tokens" :> mt)]
                      ELSE @]
    /\ UNCHANGED <<store, hdr, msgs, conf, authVars, pipeVars>>

\* MessagesHandler writing the budget it resolved into the alias's override
\* parameters as well
ConcMessages_WriteBack(r) ==
    \/ /\ conc[r].pc = "lookup"
       /\ conc' = [conc EXCEPT ![r] =
                      IF conc[r].alias \in DOMAIN store.Models
                      THEN [@ EXCEPT !.pc = "default"]
                      ELSE [conc[r] EXCEPT !.pc = "idle", !.application = "", !.alias = "",
                                           !.bodyMap = EmptyHeader]]
       /\ store' = store
       /\ UNCHANGED <<hdr, msgs, conf, authVars, pipeVars>>
    \/ /\ conc[r].pc = "default"
       /\ LET modelConfig == store.Models[conc[r].alias]
              own == { p[2] : p \in { q \in modelConfig.OverrideParams :
                                         q[1] = "max_tokens" } }
              mt == IF own # {} THEN CHOOSE v \in own : TRUE ELSE Itoa(DefaultMaxTokens)
          IN  IF "max_tokens" \notin DOMAIN conc[r].bodyMap
              THEN /\ conc' = [conc EXCEPT ![r].pc = "build",
                                           ![r].bodyMap = MapSet(@, "max_tokens", mt)]
                   /\ store' = [store EXCEPT !.Models[conc[r].alias].OverrideParams =
                                   { q \in @ : q[1] # "max_tokens" }
                                      \cup {<<"max_tokens", mt>>}]
              ELSE /\ conc' = [conc EXCEPT ![r].pc = "build"]
                   /\ store' = store
       /\ UNCHANGED <<hdr, msgs, conf, authVars, pipeVars>>

\* MessagesHandler up to its call of handleProxyRequest: the alias is looked
\* up (400 when it is unknown), and a body without a budget gets the alias's,
\* or 4096, written into bodyMap, a map made for it
ConcMessages(r) ==
    \/ /\ conc[r].pc = "lookup"
       /\ conc' = [conc EXCEPT ![r] =
                      IF conc[r].alias \in DOMAIN store.Models
                      THEN [@ EXCEPT !.pc = "default"]
                      ELSE [conc[r] EXCEPT !.pc = "idle", !.application = "", !.alias = "",
                                           !.bodyMap = EmptyHeader]]
       /\ store' = store
       /\ UNCHANGED <<hdr, msgs, conf, authVars, pipeVars>>
    \/ /\ conc[r].pc = "default"
       /\ LET modelConfig == store.Models[conc[r].alias]
              own == { p[2] : p \in { q \in modelConfig.OverrideParams :
                                         q[1] = "max_tokens" } }
              mt == IF own # {} THEN CHOOSE v \in own : TRUE ELSE Itoa(DefaultMaxTokens)
          IN  IF "max_tokens" \notin DOMAIN conc[r].bodyMap
              THEN conc' = [conc EXCEPT ![r].pc = "build",
                                        ![r].bodyMap = MapSet(@, "max_tokens", mt)]
              ELSE conc' = [conc EXCEPT ![r].pc = "build"]
       /\ store' = store
       /\ UNCHANGED <<hdr, msgs, conf, authVars, pipeVars>>

\* handleProxyRequest: buildPortkeyConfig fills a PortkeyConfig made for the
\* request (a slice and a map of its own), setPortkeyHeaders sets the header
\* of the request made for the gateway, and the answer is streamed; with the
\* handler's return the request's objects are gone
ConcProxy(r) ==
    \/ /\ conc[r].pc = "build"
       /\ conc' = [conc EXCEPT ![r].pc = "headers",
                               ![r].config = buildPortkeyConfig(store.Models[conc[r].alias])]
       /\ UNCHANGED <<store, hdr, msgs, conf, authVars, pipeVars>>
    \/ /\ conc[r].pc = "headers"
       /\ conc' = [conc EXCEPT ![r].pc = "stream",
                               ![r].header = setPortkeyHeaders(EmptyHeader, conc[r].config,
                                                               store.Models[conc[r].alias])]
       /\ UNCHANGED <<store, hdr, msgs, conf, authVars, pipeVars>>
    \/ /\ conc[r].pc = "stream"
       /\ conc' = [conc EXCEPT ![r] = [pc |-> "idle", application |-> "", alias |-> "",
                                       bodyMap |-> EmptyHeader, config |-> NoPortkeyConfig,
                                       header |-> EmptyHeader]]
       /\ UNCHANGED <<store, hdr, msgs, conf, authVars, pipeVars>>

\* the goroutines take their steps in any order
NextConcurrent == \E r \in 1..MaxRequests : ConcAuth(r) \/ ConcMessages(r) \/ ConcProxy(r)

SpecConcurrent == InitConcurrent /\ [][NextConcurrent]_vars

(***************************************************************************)
(* Configuration-snapshot claim (under SpecConcurrent)                     *)
(***************************************************************************)
\* C30: whatever requests are served at the same time and however their
\* steps interleave, no step of a request (authentication, alias lookup,
\* budget defaulting, construction of the outbound config and of the headers,
\* streaming) changes the snapshot: the alias map, each alias's config with
\* its targets and override parameters, and the proxy keys stay what they were
C30_SnapshotNeverModified == [][store' = store]_vars

\* two requests for different aliases are under way at once, one streaming
\* with the budget written into its body and its headers set, the other at
\* the construction of its config
C30_Witness ==
    \E r1, r2 \in 1..MaxRequests :
       /\ conc[r1].pc = "stream" /\ conc[r2].pc = "headers"
       /\ conc[r1].alias # conc[r2].alias
       /\ "max_tokens" \in DOMAIN conc[r1].bodyMap
       /\ "X-Portkey-Config" \in DOMAIN conc[r1].header
       /\ conc[r2].config.Provider # NoPortkeyConfig.Provider
             \/ conc[r2].config.Targets # <<>>

====
